---- MODULE Spec2Model ----
(***************************************************************************)
(* Task-status aggregation of the project dashboard: the client task store *)
(* (TaskStatusContext), the expiring localStorage cache (CacheManager),    *)
(* the GET /api/tasks-status route and the progress rules of its           *)
(* consumers.                                                              *)
(*                                                                         *)
(* Status labels and URLs are sequences of one-character strings, so that  *)
(* toLowerCase, includes and === are computed character by character.      *)
(* Messages that the code only stores and never inspects are TLA+ strings. *)
(* A nullable value is <<>> (null / undefined) or <<v>>.                   *)
(***************************************************************************)
EXTENDS Integers, Sequences, FiniteSets, TLC

None == <<>>
Some(v) == <<v>>

\* ------------------------------------------------------------------------
\* String primitives (String.prototype.toLowerCase / includes)
\* ------------------------------------------------------------------------
UpperChars ==
  <<"A","B","C","D","E","F","G","H","I","J","K","L","M",
    "N","O","P","Q","R","S","T","U","V","W","X","Y","Z">>

LowerChars ==
  <<"a","b","c","d","e","f","g","h","i","j","k","l","m",
    "n","o","p","q","r","s","t","u","v","w","x","y","z">>

LowerOf ==
  [c \in {UpperChars[i] : i \in 1..Len(UpperChars)} |->
     LowerChars[CHOOSE i \in 1..Len(UpperChars) : UpperChars[i] = c]]

toLowerChar(c) == IF c \in DOMAIN LowerOf THEN LowerOf[c] ELSE c

toLowerCase(s) == [i \in 1..Len(s) |-> toLowerChar(s[i])]

includes(s, sub) ==
  \E i \in 0..(Len(s) - Len(sub)) : SubSeq(s, i + 1, i + Len(sub)) = sub

\* Math.round(num / den * 100) for 0 <= num <= den, den > 0: the nearest
\* integer, a half rounding up.
RoundPercent(num, den) == (200 * num + den) \div (2 * den)

\* ------------------------------------------------------------------------
\* Status labels the external systems deliver (free text)
\* ------------------------------------------------------------------------
L_DONE        == <<"D","O","N","E">>
L_Completed   == <<"C","o","m","p","l","e","t","e","d">>
L_closedSp    == <<"c","l","o","s","e","d"," ">>
L_Resolved    == <<"R","e","s","o","l","v","e","d">>
L_InReview    == <<"I","n"," ","R","e","v","i","e","w">>
L_developing  == <<"d","e","v","e","l","o","p","i","n","g">>
L_ToDo        == <<"T","o"," ","D","o">>
L_InProgress  == <<"I","n"," ","P","r","o","g","r","e","s","s">>
L_Unknown     == <<"U","n","k","n","o","w","n">>
L_ErrorFetching ==
  <<"E","r","r","o","r"," ","f","e","t","c","h","i","n","g"," ",
    "s","t","a","t","u","s">>

\* ------------------------------------------------------------------------
\* Task store: classification used by getProjectProgress, getTeamProgress
\* and getNotDoneTasksByTeam
\* ------------------------------------------------------------------------
\* the doneTasks filter
StoreIsDone(status) ==
  \/ toLowerCase(status) = <<"d","o","n","e">>
  \/ toLowerCase(status) = <<"c","o","m","p","l","e","t","e","d">>
  \/ toLowerCase(status) = <<"c","l","o","s","e","d">>

\* fault variant: the "in review" test is dropped
StoreIsInProgressNoReview(status) ==
  \/ includes(toLowerCase(status), <<"p","r","o","g","r","e","s","s">>)
  \/ includes(toLowerCase(status), <<"d","e","v","e","l","o","p","i","n","g">>)

\* the inProgressTasks filter
StoreIsInProgress(status) ==
  \/ includes(toLowerCase(status), <<"p","r","o","g","r","e","s","s">>)
  \/ includes(toLowerCase(status), <<"d","e","v","e","l","o","p","i","n","g">>)
  \/ toLowerCase(status) = <<"i","n"," ","r","e","v","i","e","w">>

\* ------------------------------------------------------------------------
\* Task store queries.  The closure variable `tasks` of the provider is the
\* parameter ts.  A task is [taskId, projectId, teamId, url, status, type];
\* the optional display fields (title, assignee, dates) take no part in any
\* computation modelled here and are left out.
\* ------------------------------------------------------------------------
getTasksByProject(ts, projectId) ==
  SelectSeq(ts, LAMBDA task : task.projectId = projectId)

getTasksByTeam(ts, projectId, teamId) ==
  SelectSeq(ts, LAMBDA task : task.projectId = projectId /\ task.teamId = teamId)

\* fault variant: only 'done' is excluded
getNotDoneTasksByTeamDoneOnly(ts, projectId, teamId) ==
  SelectSeq(ts, LAMBDA task :
    /\ task.projectId = projectId
    /\ task.teamId = teamId
    /\ toLowerCase(task.status) # <<"d","o","n","e">>)

getNotDoneTasksByTeam(ts, projectId, teamId) ==
  SelectSeq(ts, LAMBDA task :
    /\ task.projectId = projectId
    /\ task.teamId = teamId
    /\ ~StoreIsDone(task.status))

\* statusBreakdown: raw label -> count, for the labels that occur
StatusBreakdown(list) ==
  [s \in {list[i].status : i \in 1..Len(list)} |->
     Len(SelectSeq(list, LAMBDA task : task.status = s))]

\* fault variant: in-progress tasks are not subtracted
OtherStatusTasksNoInProgress(totalTasks, doneTasks, inProgressTasks) ==
  totalTasks - doneTasks

\* otherStatusTasks = totalTasks - doneTasks - inProgressTasks
OtherStatusTasks(totalTasks, doneTasks, inProgressTasks) ==
  totalTasks - doneTasks - inProgressTasks

Progress(doneTasks, totalTasks) == RoundPercent(doneTasks, totalTasks)

\* the counts shared by getProjectProgress and getTeamProgress (the two
\* bodies are the same text over projectTasks / teamTasks)
ProgressCounts(list) ==
  LET totalTasks == Len(list)
      doneTasks == Len(SelectSeq(list, LAMBDA task : StoreIsDone(task.status)))
      inProgressTasks ==
        Len(SelectSeq(list, LAMBDA task : StoreIsInProgress(task.status)))
  IN [totalTasks |-> totalTasks,
      doneTasks |-> doneTasks,
      inProgressTasks |-> inProgressTasks,
      otherStatusTasks |-> OtherStatusTasks(totalTasks, doneTasks, inProgressTasks),
      progress |-> Progress(doneTasks, totalTasks),
      statusBreakdown |-> StatusBreakdown(list)]

\* fault variant: an all-zero record instead of null for an empty filter
getProjectProgressZeroRecord(ts, projectId) ==
  LET projectTasks == SelectSeq(ts, LAMBDA task : task.projectId = projectId)
  IN IF Len(projectTasks) = 0
     THEN Some([projectId |-> projectId] @@
                 [totalTasks |-> 0, doneTasks |-> 0, inProgressTasks |-> 0,
                  otherStatusTasks |-> 0, progress |-> 0,
                  statusBreakdown |-> <<>>])
     ELSE Some([projectId |-> projectId] @@ ProgressCounts(projectTasks))

getProjectProgress(ts, projectId) ==
  LET projectTasks == SelectSeq(ts, LAMBDA task : task.projectId = projectId)
  IN IF Len(projectTasks) = 0
     THEN None
     ELSE Some([projectId |-> projectId] @@ ProgressCounts(projectTasks))

getTeamProgress(ts, projectId, teamId) ==
  LET teamTasks ==
        SelectSeq(ts, LAMBDA task : task.projectId = projectId /\ task.teamId = teamId)
  IN IF Len(teamTasks) = 0
     THEN None
     ELSE Some([teamId |-> teamId, projectId |-> projectId] @@
                ProgressCounts(teamTasks))

\* ------------------------------------------------------------------------
\* The other consumers of a task list
\* ------------------------------------------------------------------------
\* lib/external-api.ts calculateProgress
LibIsCompleted(status) ==
  \E completed \in {<<"D","o","n","e">>,
                    <<"C","o","m","p","l","e","t","e","d">>,
                    <<"C","l","o","s","e","d">>,
                    <<"R","e","s","o","l","v","e","d">>} :
    includes(toLowerCase(status), toLowerCase(completed))

LibCalculateProgress(statuses) ==
  IF Len(statuses) = 0 THEN 0
  ELSE RoundPercent(Len(SelectSeq(statuses, LibIsCompleted)), Len(statuses))

\* api/team/route.ts calculateProgress (over ticketStatus, exact match)
RouteIsCompleted(ticketStatus) ==
  ticketStatus \in {<<"D","o","n","e">>,
                    <<"C","l","o","s","e","d">>,
                    <<"R","e","s","o","l","v","e","d">>,
                    <<"C","o","m","p","l","e","t","e">>}

RouteCalculateProgress(statuses) ==
  IF Len(statuses) = 0 THEN 0
  ELSE RoundPercent(Len(SelectSeq(statuses, RouteIsCompleted)), Len(statuses))

\* [project_name]/[team_name]/page.tsx completedTickets
PageIsCompleted(status) ==
  \/ includes(toLowerCase(status), <<"d","o","n","e">>)
  \/ includes(toLowerCase(status), <<"c","o","m","p","l","e","t","e">>)
  \/ includes(toLowerCase(status), <<"c","l","o","s","e","d">>)

PageCompletedTickets(statuses) == Len(SelectSeq(statuses, PageIsCompleted))

\* app/page.tsx getEnhancedProjectData: effectiveProgress and taskStats
EffectiveProgress(taskProgress) ==
  IF taskProgress # None /\ taskProgress[1].totalTasks > 0
  THEN RoundPercent(taskProgress[1].doneTasks, taskProgress[1].totalTasks)
  ELSE 0

\* new Date(project.dueDate).getTime(): dueDate is <<>> for a string that is
\* no date (Invalid Date, NaN) and <<d>> for the date-only string of day d,
\* which is the instant of its UTC midnight
DueInstant(dueDate) ==
  IF dueDate = None THEN None ELSE Some(dueDate[1] * 86400000)

\* fault variant: the due date is tested before the completion
calculateProjectStatusDateFirst(dueDate, taskProgress, currentDate) ==
  IF ~(taskProgress # None /\ taskProgress[1].totalTasks > 0) THEN "Planning"
  ELSE IF DueInstant(dueDate) # None /\ currentDate > DueInstant(dueDate)[1]
  THEN "Overdue"
  ELSE IF taskProgress[1].doneTasks = taskProgress[1].totalTasks THEN "Completed"
  ELSE "In Progress"

\* app/page.tsx calculateProjectStatus(project, taskProgress) at the instant
\* currentDate; a comparison with Invalid Date is false
calculateProjectStatus(dueDate, taskProgress, currentDate) ==
  IF ~(taskProgress # None /\ taskProgress[1].totalTasks > 0) THEN "Planning"
  ELSE IF taskProgress[1].doneTasks = taskProgress[1].totalTasks THEN "Completed"
  ELSE IF DueInstant(dueDate) # None /\ currentDate > DueInstant(dueDate)[1]
  THEN "Overdue"
  ELSE "In Progress"

StatusesOf(list) == [i \in 1..Len(list) |-> list[i].status]

\* ------------------------------------------------------------------------
\* CacheManager over localStorage.  A stored item is <<>> (absent) or <<raw>>;
\* raw is a text, by what JSON.parse makes of it:
\*   [json |-> TRUE, item |-> object]  the text of a JSON object,
\*   [json |-> FALSE]                  a text JSON.parse rejects,
\*   [json |-> FALSE, empty |-> TRUE]  the empty string.
\* A cached value is an array of plain objects.  A field `updated` of an
\* object is [t |-> "string", s |-> text] or [t |-> "Date", s |-> ISO text].
\* ------------------------------------------------------------------------
DEFAULT_CACHE_DURATION == 300000

\* CACHE_KEYS
CachePrefix == <<"c","a","c","h","e","_">>

CACHE_KEYS_PROJECTS == CachePrefix \o <<"p","r","o","j","e","c","t","s">>

CACHE_KEYS_PROJECT_DETAILS(projectId) ==
  CachePrefix \o <<"p","r","o","j","e","c","t","_">> \o projectId

CACHE_KEYS_TEAM_DETAILS(teamId, projectId) ==
  CachePrefix \o <<"t","e","a","m","_">> \o teamId \o <<"_">> \o projectId

CACHE_KEYS_TASK_STATUS ==
  CachePrefix \o <<"t","a","s","k","_","s","t","a","t","u","s">>

StorageKeys == {CACHE_KEYS_TASK_STATUS}

\* what JSON.stringify writes for one object of an array: a Date becomes
\* its ISO string (Date.prototype.toJSON)
ObjectToJSON(object) ==
  IF "updated" \in DOMAIN object /\ object.updated.t = "Date"
  THEN [object EXCEPT !.updated = [t |-> "string", s |-> object.updated.s]]
  ELSE object

ToJSON(data) == [i \in 1..Len(data) |-> ObjectToJSON(data[i])]

JSONstringify(item) ==
  [json |-> TRUE, item |-> [item EXCEPT !.data = ToJSON(item.data)]]

EmptyText == [json |-> FALSE, empty |-> TRUE]

\* <<>> when JSON.parse throws
JSONparse(raw) == IF raw.json THEN Some(raw.item) ELSE None

CacheRemove(st, key) == [st EXCEPT ![key] = None]

\* fault variant: the expiresIn argument is ignored
CacheSetDefaultDuration(st, key, data, clock, expiresIn) ==
  [st EXCEPT ![key] =
     Some(JSONstringify([data |-> data, timestamp |-> clock,
                         expiresIn |-> DEFAULT_CACHE_DURATION]))]

\* CacheManager.set, once localStorage.setItem has accepted the text
CacheSet(st, key, data, clock, expiresIn) ==
  [st EXCEPT ![key] =
     Some(JSONstringify([data |-> data, timestamp |-> clock, expiresIn |-> expiresIn]))]

\* fault variant: every key that contains the prefix is removed
CacheClearAllContaining(st) ==
  [k \in DOMAIN st |-> IF includes(k, CachePrefix) THEN None ELSE st[k]]

\* String.prototype.startsWith
startsWith(s, prefix) ==
  Len(s) >= Len(prefix) /\ SubSeq(s, 1, Len(prefix)) = prefix

\* CacheManager.clearAll over Object.keys(localStorage)
CacheClearAll(st) ==
  [k \in DOMAIN st |-> IF startsWith(k, CachePrefix) THEN None ELSE st[k]]

\* what get returns: null, undefined (the item has no data), or the data
Null(st) == [value |-> None, undefined |-> FALSE, storage |-> st]

\* (now - cacheItem.timestamp) > cacheItem.expiresIn; a missing field reads
\* as undefined, the arithmetic gives NaN and the comparison is false
IsExpired(cacheItem, clock) ==
  IF {"timestamp", "expiresIn"} \subseteq DOMAIN cacheItem
  THEN (clock - cacheItem.timestamp) > cacheItem.expiresIn
  ELSE FALSE

\* fault variant: the expiry test is dropped
CacheGetIgnoringExpiry(st, key, clock) ==
  IF st[key] = None \/ "empty" \in DOMAIN st[key][1] THEN Null(st)
  ELSE LET parsed == JSONparse(st[key][1])
       IN IF parsed = None
          THEN Null(CacheRemove(st, key))
          ELSE IF "data" \in DOMAIN parsed[1]
               THEN [value |-> Some(parsed[1].data), undefined |-> FALSE,
                     storage |-> st]
               ELSE [value |-> None, undefined |-> TRUE, storage |-> st]

\* CacheManager.get: the value returned and the storage it leaves behind
CacheGet(st, key, clock) ==
  IF st[key] = None \/ "empty" \in DOMAIN st[key][1] THEN Null(st)
  ELSE LET parsed == JSONparse(st[key][1])
       IN IF parsed = None
          THEN Null(CacheRemove(st, key))
          ELSE IF IsExpired(parsed[1], clock)
               THEN Null(CacheRemove(st, key))
               ELSE IF "data" \in DOMAIN parsed[1]
                    THEN [value |-> Some(parsed[1].data), undefined |-> FALSE,
                          storage |-> st]
                    ELSE [value |-> None, undefined |-> TRUE, storage |-> st]

\* CacheManager.getInfo(key)?.timestamp
CacheGetInfoTimestamp(st, key) ==
  IF st[key] = None \/ "empty" \in DOMAIN st[key][1] THEN None
  ELSE LET parsed == JSONparse(st[key][1])
       IN IF parsed = None \/ "timestamp" \notin DOMAIN parsed[1] THEN None
          ELSE Some(parsed[1].timestamp)

\* ------------------------------------------------------------------------
\* External record fetchers, at the boundary GET /api/tasks-status uses.
\* fetched[i] is what the external system yields for the i-th locator:
\* <<>> when the single fetch fails (or finds no row), else <<record>>.
\* A call result is [threw |-> FALSE, value |-> list] or [threw |-> TRUE].
\* ------------------------------------------------------------------------
Indices(list) == [i \in 1..Len(list) |-> i]

\* every per-ticket failure is caught inside the batch: failures are dropped
getListGeneralInfoOfJiraTicket(listUrl, fetched) ==
  LET kept == SelectSeq(Indices(listUrl), LAMBDA i : fetched[i] # None)
  IN [threw |-> FALSE,
      value |-> [k \in 1..Len(kept) |->
                  [url |-> listUrl[kept[k]], ticketStatus |-> fetched[kept[k]][1]]]]

\* a row is the header-driven record: here its "url" and "status" columns,
\* each <<>> when the sheet has no such column (or an empty cell)
getMultipleSheetRowsData(rowUrls, fetched) ==
  LET kept == SelectSeq(Indices(rowUrls), LAMBDA i : fetched[i] # None)
  IN [threw |-> FALSE,
      value |-> [k \in 1..Len(kept) |-> fetched[kept[k]][1]]]

RemoveAt(list, i) == SubSeq(list, 1, i - 1) \o SubSeq(list, i + 1, Len(list))

\* list.find(x => x.url === url): the first such element, else <<>>
FindByUrl(list, url) ==
  LET hits == SelectSeq(list, LAMBDA x : x.url = url)
  IN IF hits = <<>> THEN None ELSE Some(hits[1])

\* ------------------------------------------------------------------------
\* GET /api/tasks-status
\* db is the result of supabase.from('Task').select('*'):
\* [failed |-> TRUE] or [failed |-> FALSE, rows |-> Task rows].
\* ------------------------------------------------------------------------
IsJiraTask(task) == includes(task.url, <<"a","t","l","a","s","s","i","a","n">>)

IsSheetTask(task) == includes(task.url, <<"g","o","o","g","l","e">>)

ErrorPlaceholder(task) ==
  [taskId |-> task.taskId, projectId |-> task.projectId, teamId |-> task.teamId,
   url |-> task.url, status |-> L_ErrorFetching, type |-> task.type]

JiraRecord(task, jiraTicketsData) ==
  LET jiraData == FindByUrl(jiraTicketsData, task.url)
  IN [taskId |-> task.taskId, projectId |-> task.projectId, teamId |-> task.teamId,
      url |-> task.url,
      status |-> IF jiraData # None THEN jiraData[1].ticketStatus ELSE L_Unknown,
      type |-> task.type]

SheetRecord(task, sheetRowsData) ==
  LET sheetData == FindByUrl(sheetRowsData, Some(task.url))
  IN [taskId |-> task.taskId, projectId |-> task.projectId, teamId |-> task.teamId,
      url |-> task.url,
      status |-> IF sheetData # None /\ sheetData[1].status # None
                 THEN sheetData[1].status[1] ELSE L_Unknown,
      type |-> task.type]

JiraPart(jiraTasks, jiraCall) ==
  IF Len(jiraTasks) = 0 THEN <<>>
  ELSE IF jiraCall.threw
       THEN [i \in 1..Len(jiraTasks) |-> ErrorPlaceholder(jiraTasks[i])]
       ELSE [i \in 1..Len(jiraTasks) |-> JiraRecord(jiraTasks[i], jiraCall.value)]

SheetPart(sheetTasks, sheetCall) ==
  IF Len(sheetTasks) = 0 THEN <<>>
  ELSE IF sheetCall.threw
       THEN [i \in 1..Len(sheetTasks) |-> ErrorPlaceholder(sheetTasks[i])]
       ELSE [i \in 1..Len(sheetTasks) |-> SheetRecord(sheetTasks[i], sheetCall.value)]

UrlsOf(list) == [i \in 1..Len(list) |-> list[i].url]

\* jiraFetched / sheetFetched: the external outcome per locator of the
\* partition, in partition order
TaskStatusResults(rows, jiraFetched, sheetFetched) ==
  LET jiraTasks == SelectSeq(rows, IsJiraTask)
      sheetTasks == SelectSeq(rows, IsSheetTask)
      jiraCall == getListGeneralInfoOfJiraTicket(UrlsOf(jiraTasks), jiraFetched)
      sheetCall == getMultipleSheetRowsData(UrlsOf(sheetTasks), sheetFetched)
  IN JiraPart(jiraTasks, jiraCall) \o SheetPart(sheetTasks, sheetCall)

DbErrorResponse ==
  [httpStatus |-> 500,
   body |-> [status |-> "error", errorCode |-> "DB_ERROR",
             message |-> "Failed to fetch tasks", data |-> None]]

InternalErrorResponse ==
  [httpStatus |-> 500,
   body |-> [status |-> "error", errorCode |-> "INTERNAL_ERROR",
             message |-> "An unexpected error occurred while fetching task statuses",
             data |-> None]]

SuccessResponse(message, data) ==
  [httpStatus |-> 200,
   body |-> [status |-> "success", errorCode |-> "", message |-> message,
             data |-> Some(data)]]

\* fault variant: a wholly failed partition fails the request
TasksStatusGETFailsWithPartition(db, jiraFetched, sheetFetched) ==
  IF db.failed THEN DbErrorResponse
  ELSE IF Len(db.rows) = 0 THEN SuccessResponse("No tasks found", <<>>)
  ELSE IF \/ (jiraFetched # <<>> /\ \A i \in 1..Len(jiraFetched) : jiraFetched[i] = None)
          \/ (sheetFetched # <<>> /\ \A i \in 1..Len(sheetFetched) : sheetFetched[i] = None)
       THEN InternalErrorResponse
       ELSE SuccessResponse("Successfully fetched status",
                            TaskStatusResults(db.rows, jiraFetched, sheetFetched))

\* GET: the response for a list-query outcome and the fetch outcomes
TasksStatusGET(db, jiraFetched, sheetFetched) ==
  IF db.failed THEN DbErrorResponse
  ELSE IF Len(db.rows) = 0 THEN SuccessResponse("No tasks found", <<>>)
  ELSE SuccessResponse("Successfully fetched status",
                       TaskStatusResults(db.rows, jiraFetched, sheetFetched))

\* ------------------------------------------------------------------------
\* State
\* ------------------------------------------------------------------------
VARIABLES
  tasks,        \* TaskStatusProvider state: the in-memory task list
  loading,      \* TaskStatusProvider state
  error,        \* TaskStatusProvider state: <<>> or <<message>>
  lastUpdated,  \* TaskStatusProvider state: <<>> or <<time>>
  mounted,      \* whether the provider's mount effect has run
  calls,        \* the fetchTasks calls in flight, oldest first, each at its
                \* await: "fetch" or "json" (with the response received);
                \* overtaken records that a call started later has settled
  storage,      \* localStorage: key -> <<>> or <<raw text>>
  now,          \* Date.now(), in ms
  taskTable,    \* the Task table of the database
  last          \* the last operation, with its inputs and what it returned

vars == <<tasks, loading, error, lastUpdated, mounted, calls, storage, now,
          taskTable, last>>

storeVars == <<tasks, loading, error, lastUpdated, mounted, calls>>

\* bounds of the model
MaxInFlight == 2
MaxTicks == 3
MaxTasks == 3
MaxRows == 2

ProjectIds == {1, 2}
TeamIds == {1, 2}

URL_jira1 == <<"h","t","t","p","s",":","/","/","a",".","a","t","l","a","s","s","i","a","n",".","n","e","t","/","b","r","o","w","s","e","/","A","B","-","1">>
URL_jira2 == <<"h","t","t","p","s",":","/","/","a",".","a","t","l","a","s","s","i","a","n",".","n","e","t","/","b","r","o","w","s","e","/","A","B","-","2">>
URL_sheet1 == <<"h","t","t","p","s",":","/","/","d","o","c","s",".","g","o","o","g","l","e",".","c","o","m","/","s","p","r","e","a","d","s","h","e","e","t","s","/","d","/","s","1","#","r","a","n","g","e","=","3",":","3">>
URL_sheet2 == <<"h","t","t","p","s",":","/","/","d","o","c","s",".","g","o","o","g","l","e",".","c","o","m","/","s","p","r","e","a","d","s","h","e","e","t","s","/","d","/","s","1","#","r","a","n","g","e","=","4",":","4">>

\* the Task rows of the store scenario: one issue-tracker task, one sheet task
SeedTaskTable ==
  << [taskId |-> 1, url |-> URL_jira1, teamId |-> 1, projectId |-> 1, type |-> 1],
     [taskId |-> 2, url |-> URL_sheet1, teamId |-> 1, projectId |-> 2, type |-> 0] >>

\* what the issue tracker can answer for one ticket, and a sheet for one row
TicketOutcomes == {None, Some(L_DONE)}

RowOutcomes(url) ==
  {None,
   Some([url |-> None, status |-> Some(L_Completed)]),
   Some([url |-> Some(url), status |-> Some(L_ToDo)])}

\* all assignments of one outcome per locator
TicketOutcomeLists(urls) == [1..Len(urls) -> TicketOutcomes]

RowOutcomeLists(urls) ==
  {f \in [1..Len(urls) -> UNION {RowOutcomes(urls[i]) : i \in 1..Len(urls)}] :
     \A i \in 1..Len(urls) : f[i] \in RowOutcomes(urls[i])}

\* an HTTP response as fetchTasks sees it: response.ok, response.status,
\* whether response.json() resolves, and the parsed body
RouteResponse(r) ==
  [httpStatus |-> r.httpStatus, json |-> TRUE, body |-> r.body]

\* responses that do not come from the route handler (gateway, error page)
ForeignResponses ==
  { [httpStatus |-> 502, json |-> FALSE,
     body |-> [status |-> "", errorCode |-> "", message |-> "", data |-> None]],
    [httpStatus |-> 200, json |-> FALSE,
     body |-> [status |-> "", errorCode |-> "", message |-> "", data |-> None]],
    [httpStatus |-> 200, json |-> TRUE,
     body |-> [status |-> "error", errorCode |-> "", message |-> "", data |-> None]] }

ServerResponses(table) ==
  LET jiraUrls == UrlsOf(SelectSeq(table, IsJiraTask))
      sheetUrls == UrlsOf(SelectSeq(table, IsSheetTask))
  IN { RouteResponse(TasksStatusGET(db, jf, sf)) :
         db \in {[failed |-> TRUE], [failed |-> FALSE, rows |-> table]},
         jf \in TicketOutcomeLists(jiraUrls),
         sf \in RowOutcomeLists(sheetUrls) }
     \cup ForeignResponses

HttpErrorMessage(httpStatus) ==
  IF httpStatus = 500 THEN "HTTP 500: Internal Server Error"
  ELSE "HTTP 502: Bad Gateway"

\* ------------------------------------------------------------------------
\* TaskStatusProvider
\* ------------------------------------------------------------------------
\* a call that has just reached await fetch(...)
NewCall == [pc |-> "fetch", overtaken |-> FALSE]

\* the calls left in flight when call i settles: nothing cancels the others
Settled(list, i) ==
  RemoveAt([k \in 1..Len(list) |->
              IF k < i THEN [list[k] EXCEPT !.overtaken = TRUE] ELSE list[k]], i)

\* fault variant: starting a call aborts the calls already in flight
FetchTasksCancelling(forceRefresh) ==
  LET got == CacheGet(storage, CACHE_KEYS_TASK_STATUS, now)
      cachedTasks == IF forceRefresh THEN None ELSE got.value
  IN IF cachedTasks # None
     THEN /\ tasks' = cachedTasks[1]
          /\ lastUpdated' =
               (LET ts == CacheGetInfoTimestamp(storage, CACHE_KEYS_TASK_STATUS)
                IN IF ts # None THEN ts ELSE Some(now))
          /\ loading' = FALSE
          /\ error' = None
          /\ UNCHANGED <<calls, storage>>
     ELSE /\ storage' = (IF forceRefresh THEN storage ELSE got.storage)
          /\ loading' = TRUE
          /\ error' = None
          /\ calls' = <<NewCall>>
          /\ UNCHANGED <<tasks, lastUpdated>>

\* fetchTasks up to its first await (or its return from the cache)
FetchTasks(forceRefresh) ==
  LET got == CacheGet(storage, CACHE_KEYS_TASK_STATUS, now)
      cachedTasks == IF forceRefresh THEN None ELSE got.value
  IN IF cachedTasks # None
     THEN /\ tasks' = cachedTasks[1]
          /\ lastUpdated' =
               (LET ts == CacheGetInfoTimestamp(storage, CACHE_KEYS_TASK_STATUS)
                IN IF ts # None THEN ts ELSE Some(now))
          /\ loading' = FALSE
          /\ error' = None
          /\ UNCHANGED <<calls, storage>>
     ELSE /\ storage' = (IF forceRefresh THEN storage ELSE got.storage)
          /\ loading' = TRUE
          /\ error' = None
          /\ calls' = Append(calls, NewCall)
          /\ UNCHANGED <<tasks, lastUpdated>>

\* fault variant: the finally block is dropped
CatchLeavesLoading(errorMessage) ==
  /\ error' = Some(errorMessage)
  /\ tasks' = <<>>
  /\ UNCHANGED <<loading, lastUpdated, storage>>

\* fault variant: the catch block also drops the cached task list
CatchRemovingEntry(errorMessage) ==
  /\ error' = Some(errorMessage)
  /\ tasks' = <<>>
  /\ loading' = FALSE
  /\ storage' = CacheRemove(storage, CACHE_KEYS_TASK_STATUS)
  /\ UNCHANGED lastUpdated

\* the catch block, then finally
Catch(errorMessage) ==
  /\ error' = Some(errorMessage)
  /\ tasks' = <<>>
  /\ loading' = FALSE
  /\ UNCHANGED <<lastUpdated, storage>>

\* the useEffect of the provider: fetchTasks()
FetchOnMount ==
  /\ ~mounted
  /\ mounted' = TRUE
  /\ FetchTasks(FALSE)
  /\ last' = [op |-> "fetchTasks", forceRefresh |-> FALSE,
              storageBefore |-> storage, clock |-> now,
              loadingBefore |-> loading, callsBefore |-> calls,
              network |-> (calls' # calls),
              afterClear |-> (last.op = "reload" /\ last.afterClear)]
  /\ UNCHANGED <<now, taskTable>>

\* refreshTasks(): fetchTasks(true)
RefreshTasks ==
  /\ mounted
  /\ Len(calls) < MaxInFlight
  /\ FetchTasks(TRUE)
  /\ last' = [op |-> "fetchTasks", forceRefresh |-> TRUE,
              storageBefore |-> storage, clock |-> now,
              loadingBefore |-> loading, callsBefore |-> calls,
              network |-> (calls' # calls)]
  /\ UNCHANGED <<mounted, now, taskTable>>

\* await fetch('/api/tasks-status') rejects: a network error
FetchRejects(i) ==
  /\ calls[i].pc = "fetch"
  /\ calls' = Settled(calls, i)
  /\ Catch("Failed to fetch")
  /\ last' = [op |-> "refreshFailed", call |-> i, overtaken |-> calls[i].overtaken]
  /\ UNCHANGED <<mounted, now, taskTable>>

\* await fetch('/api/tasks-status') resolves with a response: the status
\* line has arrived, the body is read by response.json()
FetchResolves(i) ==
  /\ calls[i].pc = "fetch"
  /\ \E response \in ServerResponses(taskTable) :
       IF ~(response.httpStatus = 200)
       THEN /\ calls' = Settled(calls, i)
            /\ Catch(HttpErrorMessage(response.httpStatus))
            /\ last' = [op |-> "refreshFailed", call |-> i,
                        overtaken |-> calls[i].overtaken]
       ELSE /\ calls' = [calls EXCEPT ![i].pc = "json"]
            /\ last' = [op |-> "responseReceived", call |-> i]
            /\ UNCHANGED <<tasks, loading, error, lastUpdated, storage>>
  /\ UNCHANGED <<mounted, now, taskTable>>

\* await response.json() settles, with the body of an OK response
JsonSettles(i) ==
  /\ calls[i].pc = "json"
  /\ \E response \in {r \in ServerResponses(taskTable) : r.httpStatus = 200} :
       LET result == response.body
       IN IF ~response.json
          THEN /\ Catch("Unexpected token < in JSON at position 0")
               /\ last' = [op |-> "refreshFailed", call |-> i,
                           overtaken |-> calls[i].overtaken]
          ELSE IF result.status = "success"
          THEN LET taskData == IF result.data # None THEN result.data[1] ELSE <<>>
               IN /\ tasks' = taskData
                  /\ lastUpdated' = Some(now)
                  /\ storage' = CacheSet(storage, CACHE_KEYS_TASK_STATUS, taskData,
                                         now, DEFAULT_CACHE_DURATION)
                  /\ loading' = FALSE
                  /\ UNCHANGED error
                  /\ last' = [op |-> "refreshSucceeded", call |-> i, data |-> taskData,
                              overtaken |-> calls[i].overtaken,
                              tasksBefore |-> tasks]
          ELSE /\ Catch(IF result.message # "" THEN result.message
                        ELSE "Failed to fetch tasks")
               /\ last' = [op |-> "refreshFailed", call |-> i,
                           overtaken |-> calls[i].overtaken]
  /\ calls' = Settled(calls, i)
  /\ UNCHANGED <<mounted, now, taskTable>>

\* fault variant: clearCache also starts a forced fetch
ClearCacheRefetching ==
  /\ mounted
  /\ Len(calls) < MaxInFlight
  /\ storage' = CacheRemove(storage, CACHE_KEYS_TASK_STATUS)
  /\ loading' = TRUE
  /\ error' = None
  /\ calls' = Append(calls, NewCall)
  /\ last' = [op |-> "clearCache", storageBefore |-> storage,
              tasksBefore |-> tasks, loadingBefore |-> loading,
              errorBefore |-> error, lastUpdatedBefore |-> lastUpdated,
              callsBefore |-> calls]
  /\ UNCHANGED <<tasks, lastUpdated, mounted, now, taskTable>>

\* clearCache()
ClearCache ==
  /\ mounted
  /\ storage' = CacheRemove(storage, CACHE_KEYS_TASK_STATUS)
  /\ last' = [op |-> "clearCache", storageBefore |-> storage,
              tasksBefore |-> tasks, loadingBefore |-> loading,
              errorBefore |-> error, lastUpdatedBefore |-> lastUpdated,
              callsBefore |-> calls]
  /\ UNCHANGED <<storeVars, now, taskTable>>

\* ------------------------------------------------------------------------
\* Environment of the store
\* ------------------------------------------------------------------------
\* time passes
Tick ==
  /\ now < MaxTicks * 150000
  /\ now' = now + 150000
  /\ last' = [op |-> "tick"]
  /\ UNCHANGED <<storeVars, storage, taskTable>>

\* the stored text is overwritten from outside the CacheManager
StorageCorrupted ==
  /\ storage[CACHE_KEYS_TASK_STATUS] # None
  /\ storage[CACHE_KEYS_TASK_STATUS] # Some([json |-> FALSE])
  /\ storage' = [storage EXCEPT ![CACHE_KEYS_TASK_STATUS] = Some([json |-> FALSE])]
  /\ last' = [op |-> "storageCorrupted"]
  /\ UNCHANGED <<storeVars, now, taskTable>>

\* the page is loaded again: a new provider over the same localStorage
Reload ==
  /\ mounted
  /\ tasks' = <<>>
  /\ loading' = TRUE
  /\ error' = None
  /\ lastUpdated' = None
  /\ mounted' = FALSE
  /\ calls' = <<>>
  /\ last' = [op |-> "reload",
              afterClear |-> (/\ last.op = "clearCache"
                              /\ last.storageBefore[CACHE_KEYS_TASK_STATUS] # None)]
  /\ UNCHANGED <<storage, now, taskTable>>

Init ==
  /\ tasks = <<>>
  /\ loading = TRUE
  /\ error = None
  /\ lastUpdated = None
  /\ mounted = FALSE
  /\ calls = <<>>
  /\ storage =
       [k \in StorageKeys \cup {CACHE_KEYS_PROJECTS,
                                  CACHE_KEYS_PROJECT_DETAILS(<<"1">>),
                                  CACHE_KEYS_TEAM_DETAILS(<<"1">>, <<"1">>)} |->
          IF k \notin StorageKeys
          THEN Some(JSONstringify(
                 [data |-> <<[id |-> 1,
                              updated |-> [t |-> "string",
                                           s |-> "2024-05-01T00:00:00.000Z"]]>>,
                  timestamp |-> 0, expiresIn |-> DEFAULT_CACHE_DURATION]))
          ELSE None]
  /\ now = 0
  /\ taskTable = SeedTaskTable
  /\ last = [op |-> "init"]

Next ==
  \/ FetchOnMount
  \/ RefreshTasks
  \/ \E i \in 1..Len(calls) : FetchRejects(i)
  \/ \E i \in 1..Len(calls) : FetchResolves(i)
  \/ \E i \in 1..Len(calls) : JsonSettles(i)
  \/ ClearCache
  \/ Tick
  \/ StorageCorrupted
  \/ Reload

Spec == Init /\ [][Next]_vars

\* ------------------------------------------------------------------------
\* The derived-metric functions applied to task lists (SpecProgress).
\* The store holds a list that a refresh delivered; the labels are whatever
\* the external systems report.
\* ------------------------------------------------------------------------
Task(taskId, projectId, teamId, status) ==
  [taskId |-> taskId, projectId |-> projectId, teamId |-> teamId,
   url |-> URL_jira1, status |-> status, type |-> 1]

\* the (project, team, label) combinations the lists are drawn from
TaskKinds ==
  { <<1, 1, L_DONE>>, <<1, 1, L_ToDo>>, <<1, 1, L_InReview>>,
    <<1, 1, L_Resolved>>, <<1, 2, L_Completed>>, <<1, 2, L_closedSp>>,
    <<1, 2, L_developing>>, <<2, 1, L_InProgress>> }

TaskLists ==
  UNION { { [i \in 1..n |-> Task(i, k[i][1], k[i][2], k[i][3])] :
              k \in [1..n -> TaskKinds] } : n \in 0..MaxTasks }

InitProgress ==
  /\ tasks \in TaskLists
  /\ loading = FALSE
  /\ error = None
  /\ lastUpdated = Some(0)
  /\ mounted = TRUE
  /\ calls = <<>>
  /\ storage = [k \in StorageKeys |-> None]
  /\ now = 0
  /\ taskTable = <<>>
  /\ last = [op |-> "init"]

\* a query returns; the queries leave the store as it is, so each is applied
\* to the list as first query
Returns(record) ==
  /\ last.op = "init"
  /\ last' = record
  /\ UNCHANGED <<storeVars, storage, now, taskTable>>

GetProjectProgress(projectId) ==
  Returns([op |-> "getProjectProgress", projectId |-> projectId,
           result |-> getProjectProgress(tasks, projectId)])

GetTeamProgress(projectId, teamId) ==
  Returns([op |-> "getTeamProgress", projectId |-> projectId, teamId |-> teamId,
           result |-> getTeamProgress(tasks, projectId, teamId)])

GetNotDoneTasksByTeam(projectId, teamId) ==
  Returns([op |-> "getNotDoneTasksByTeam", projectId |-> projectId,
           teamId |-> teamId,
           result |-> getNotDoneTasksByTeam(tasks, projectId, teamId)])

\* lib calculateProgress(taskList.map(task => ({ status: task.taskStatus })))
CalculateProgress ==
  Returns([op |-> "calculateProgress", statuses |-> StatusesOf(tasks),
           result |-> LibCalculateProgress(StatusesOf(tasks))])

\* api/team/route.ts calculateProgress(taskList)
TeamRouteCalculateProgress ==
  Returns([op |-> "teamRouteCalculateProgress", statuses |-> StatusesOf(tasks),
           result |-> RouteCalculateProgress(StatusesOf(tasks))])

\* transformApiResponseToTeamData: completedTickets
TransformApiResponseToTeamData ==
  Returns([op |-> "transformApiResponseToTeamData", statuses |-> StatusesOf(tasks),
           completedTickets |-> PageCompletedTickets(StatusesOf(tasks))])

\* the due dates of the projects and the instants the page is rendered at
ProjectDueDates == {None, Some(10)}
RenderInstants == {10 * 86400000 - 1, 10 * 86400000, 10 * 86400000 + 1}

\* getEnhancedProjectData(project)
GetEnhancedProjectData(projectId, dueDate, currentDate) ==
  Returns([op |-> "getEnhancedProjectData", projectId |-> projectId,
           dueDate |-> dueDate, currentDate |-> currentDate,
           taskProgress |-> getProjectProgress(tasks, projectId),
           status |-> calculateProjectStatus(
                        dueDate, getProjectProgress(tasks, projectId), currentDate),
           progress |-> EffectiveProgress(getProjectProgress(tasks, projectId))])

NextProgress ==
  \/ \E p \in ProjectIds : GetProjectProgress(p)
  \/ \E p \in ProjectIds, t \in TeamIds : GetTeamProgress(p, t)
  \/ \E p \in ProjectIds, t \in TeamIds : GetNotDoneTasksByTeam(p, t)
  \/ CalculateProgress
  \/ TeamRouteCalculateProgress
  \/ TransformApiResponseToTeamData
  \/ \E p \in ProjectIds, dueDate \in ProjectDueDates,
        currentDate \in RenderInstants :
       GetEnhancedProjectData(p, dueDate, currentDate)

SpecProgress == InitProgress /\ [][NextProgress]_vars

\* ------------------------------------------------------------------------
\* GET /api/tasks-status over Task tables (SpecRoute)
\* ------------------------------------------------------------------------
URL_other == <<"h","t","t","p","s",":","/","/","e","x","a","m","p","l","e",".","c","o","m","/","t","/","1">>

TaskRows ==
  { [taskId |-> 1, url |-> URL_jira1, teamId |-> 1, projectId |-> 1, type |-> 1],
    [taskId |-> 2, url |-> URL_jira2, teamId |-> 1, projectId |-> 1, type |-> 1],
    [taskId |-> 3, url |-> URL_sheet1, teamId |-> 2, projectId |-> 1, type |-> 0],
    [taskId |-> 4, url |-> URL_sheet2, teamId |-> 1, projectId |-> 2, type |-> 0],
    [taskId |-> 5, url |-> URL_other, teamId |-> 1, projectId |-> 2, type |-> 0] }

\* tables of distinct rows (taskId is the primary key)
TaskTables ==
  UNION { { t \in [1..n -> TaskRows] :
              \A i, j \in 1..n : i # j => t[i] # t[j] } : n \in 0..MaxRows }

InitRoute ==
  /\ tasks = <<>>
  /\ loading = TRUE
  /\ error = None
  /\ lastUpdated = None
  /\ mounted = FALSE
  /\ calls = <<>>
  /\ storage = [k \in StorageKeys |-> None]
  /\ now = 0
  /\ taskTable \in TaskTables
  /\ last = [op |-> "init"]

\* one run of the route handler: the list query answers or fails, and each
\* locator's external fetch has its own outcome
GetTasksStatus ==
  \E dbFailed \in BOOLEAN,
     jf \in TicketOutcomeLists(UrlsOf(SelectSeq(taskTable, IsJiraTask))),
     sf \in RowOutcomeLists(UrlsOf(SelectSeq(taskTable, IsSheetTask))) :
    /\ last' = [op |-> "GET /api/tasks-status", dbFailed |-> dbFailed,
                jiraFetched |-> jf, sheetFetched |-> sf,
                response |->
                  TasksStatusGET(IF dbFailed THEN [failed |-> TRUE]
                                 ELSE [failed |-> FALSE, rows |-> taskTable],
                                 jf, sf)]
    /\ UNCHANGED <<storeVars, storage, now, taskTable>>

NextRoute == GetTasksStatus

SpecRoute == InitRoute /\ [][NextRoute]_vars

\* ------------------------------------------------------------------------
\* CacheManager over a localStorage with several keys (SpecCache)
\* ------------------------------------------------------------------------
\* keys of localStorage that are not CACHE_KEYS
KEY_theme == <<"t","h","e","m","e">>
KEY_my_cache_ == <<"m","y","_","c","a","c","h","e","_">>

\* the keys callers set, get and remove in this scenario
CallerKeys == {CACHE_KEYS_PROJECTS, CACHE_KEYS_TASK_STATUS}

\* keys that hold an entry from the start
SeededKeys ==
  {CACHE_KEYS_PROJECT_DETAILS(<<"1">>), CACHE_KEYS_TEAM_DETAILS(<<"1">>, <<"1">>),
   KEY_theme, KEY_my_cache_}

\* cached values: an array of JSON objects, and one holding a Date
V_plain == <<[id |-> 1, updated |-> [t |-> "string", s |-> "2024-05-01T00:00:00.000Z"]]>>
V_date == <<[id |-> 1, updated |-> [t |-> "Date", s |-> "2024-05-01T00:00:00.000Z"]]>>

CacheValues == {V_plain, V_date}

\* the expiresIn argument: <<>> when the caller passes none
TtlArguments == {None, Some(150000)}

InitCache ==
  /\ tasks = <<>>
  /\ loading = TRUE
  /\ error = None
  /\ lastUpdated = None
  /\ mounted = FALSE
  /\ calls = <<>>
  /\ storage = [k \in CallerKeys \cup SeededKeys |->
                  IF k \in SeededKeys
                  THEN Some(JSONstringify([data |-> V_plain, timestamp |-> 0,
                                           expiresIn |-> DEFAULT_CACHE_DURATION]))
                  ELSE None]
  /\ now = 0
  /\ taskTable = <<>>
  /\ last = [op |-> "init"]

\* CacheManager.set(key, data, expiresIn?); localStorage.setItem throws when
\* the quota is exceeded, and set swallows the exception
CacheManagerSet(key, data, ttl, accepted) ==
  LET expiresIn == IF ttl = None THEN DEFAULT_CACHE_DURATION ELSE ttl[1]
  IN /\ storage' = (IF accepted THEN CacheSet(storage, key, data, now, expiresIn)
                    ELSE storage)
     /\ last' = [op |-> "set", key |-> key, data |-> data, ttl |-> ttl,
                 accepted |-> accepted]
     /\ UNCHANGED <<storeVars, now, taskTable>>

\* CacheManager.get(key)
CacheManagerGet(key) ==
  LET got == CacheGet(storage, key, now)
  IN /\ storage' = got.storage
     /\ last' = [op |-> "get", key |-> key, entryBefore |-> storage[key],
                 value |-> got.value, undefined |-> got.undefined]
     /\ UNCHANGED <<storeVars, now, taskTable>>

\* CacheManager.remove(key)
CacheManagerRemove(key) ==
  /\ storage' = CacheRemove(storage, key)
  /\ last' = [op |-> "remove", key |-> key]
  /\ UNCHANGED <<storeVars, now, taskTable>>

\* CacheManager.clearAll()
CacheManagerClearAll ==
  /\ storage' = CacheClearAll(storage)
  /\ last' = [op |-> "clearAll", storageBefore |-> storage]
  /\ UNCHANGED <<storeVars, now, taskTable>>

\* fault variant: addTask also removes the task list entry
CachedApiServiceAddTaskClearingTaskList(teamId, projectId, isSuccess) ==
  /\ storage' =
       (IF isSuccess
        THEN CacheRemove(
               CacheRemove(CacheRemove(storage,
                                       CACHE_KEYS_TEAM_DETAILS(teamId, projectId)),
                           CACHE_KEYS_PROJECT_DETAILS(projectId)),
               CACHE_KEYS_TASK_STATUS)
        ELSE storage)
  /\ last' = [op |-> "addTask", teamId |-> teamId, projectId |-> projectId,
              isSuccess |-> isSuccess, storageBefore |-> storage]
  /\ UNCHANGED <<storeVars, now, taskTable>>

\* CachedApiService.addTask(teamId, projectId, taskData): the request, then
\* clearTeamCache and clearProjectCache when apiService.isSuccess(result)
CachedApiServiceAddTask(teamId, projectId, isSuccess) ==
  /\ storage' =
       (IF isSuccess
        THEN CacheRemove(CacheRemove(storage, CACHE_KEYS_TEAM_DETAILS(teamId, projectId)),
                         CACHE_KEYS_PROJECT_DETAILS(projectId))
        ELSE storage)
  /\ last' = [op |-> "addTask", teamId |-> teamId, projectId |-> projectId,
              isSuccess |-> isSuccess, storageBefore |-> storage]
  /\ UNCHANGED <<storeVars, now, taskTable>>

\* CachedApiService.createProject(projectData)
CachedApiServiceCreateProject(isSuccess) ==
  /\ storage' = (IF isSuccess THEN CacheRemove(storage, CACHE_KEYS_PROJECTS)
                 ELSE storage)
  /\ last' = [op |-> "createProject", isSuccess |-> isSuccess,
              storageBefore |-> storage]
  /\ UNCHANGED <<storeVars, now, taskTable>>

\* texts that are not the text of a {data, timestamp, expiresIn} item:
\* '{bad', '', '{"foo":1}' and '{"data":[...]}'
ForeignTexts ==
  { [json |-> FALSE], EmptyText,
    [json |-> TRUE, item |-> [foo |-> 1]],
    [json |-> TRUE, item |-> [data |-> V_plain]] }

\* localStorage.setItem(key, text) from outside the CacheManager
StorageOverwritten(key, text) ==
  /\ storage' = [storage EXCEPT ![key] = Some(text)]
  /\ last' = [op |-> "setItem", key |-> key]
  /\ UNCHANGED <<storeVars, now, taskTable>>

NextCache ==
  \/ \E key \in CallerKeys, data \in CacheValues, ttl \in TtlArguments,
        accepted \in BOOLEAN : CacheManagerSet(key, data, ttl, accepted)
  \/ \E key \in CallerKeys : CacheManagerGet(key)
  \/ \E key \in CallerKeys : CacheManagerRemove(key)
  \/ CacheManagerClearAll
  \/ \E isSuccess \in BOOLEAN : CachedApiServiceAddTask(<<"1">>, <<"1">>, isSuccess)
  \/ \E isSuccess \in BOOLEAN : CachedApiServiceCreateProject(isSuccess)
  \/ \E key \in CallerKeys, text \in ForeignTexts : StorageOverwritten(key, text)
  \/ Tick

SpecCache == InitCache /\ [][NextCache]_vars

\* ------------------------------------------------------------------------
\* POST /api/task over the Task table (SpecTask)
\* ------------------------------------------------------------------------
\* parseTaskUrl(url): the type, None when it throws
parseTaskUrl(url) ==
  IF \/ includes(url, <<"a","t","l","a","s","s","i","a","n",".","n","e","t">>)
     \/ includes(url, <<"j","i","r","a">>)
  THEN Some("jiraTicket")
  ELSE IF includes(url, <<"d","o","c","s",".","g","o","o","g","l","e",".","c","o","m",
                          "/","s","p","r","e","a","d","s","h","e","e","t","s">>)
  THEN Some("rowSheet")
  ELSE None

\* parseInt of a string of decimal digits
parseInt(s) ==
  LET digits == <<"0","1","2","3","4","5","6","7","8","9">>
      RECURSIVE value(_)
      value(n) == IF n = 0 THEN 0
                  ELSE 10 * value(n - 1)
                       + (CHOOSE d \in 0..9 : digits[d + 1] = s[n])
  IN value(Len(s))

\* the ids of the Team and Project tables and the pairs of Teams_Projects
TeamTable == {1, 2}
ProjectTable == {1}
Teams_Projects == {<<1, 1>>, <<2, 1>>}

\* the rows of the table a query with the three eq filters matches
Stored(table, teamId, projectId, url) ==
  {i \in 1..Len(table) :
     /\ table[i].teamId = parseInt(teamId)
     /\ table[i].projectId = parseInt(projectId)
     /\ table[i].url = url}

\* from('Task').select('taskId').eq('teamId', ..).eq('projectId', ..)
\* .eq('url', ..).single(): the row when exactly one row matches, no data
\* otherwise
SelectExistingTask(table, teamId, projectId, url) ==
  LET found == Stored(table, teamId, projectId, url)
  IN IF Cardinality(found) = 1
     THEN Some(table[CHOOSE i \in found : TRUE].taskId)
     ELSE None

\* from('Task').insert(tasksToInsert): taskId is the identity column
InsertTasks(table, tasksToInsert) ==
  table \o [i \in 1..Len(tasksToInsert) |->
              [taskId |-> Len(table) + i,
               url |-> tasksToInsert[i].url,
               teamId |-> tasksToInsert[i].teamId,
               projectId |-> tasksToInsert[i].projectId]]

\* query parameters and bodies of the requests
PostTeamIds == {<<>>, <<"1">>, <<"3">>}
PostProjectIds == {<<"1">>}
PostTypes == {"jiraTicket", "rowSheet"}
PostListUrls ==
  { <<>>, <<URL_jira1>>, <<URL_jira1, URL_jira1>>, <<URL_jira2, URL_jira1>>,
    <<URL_other>>, <<URL_sheet1, URL_jira2>> }

\* the table never holds more rows than this
MaxTaskRows == MaxRows + 2

\* the rows the requests in flight may still insert
RECURSIVE Pending(_)
Pending(list) ==
  IF list = <<>> THEN 0 ELSE Len(list[1].listUrl) + Pending(Tail(list))

InitTask ==
  /\ tasks = <<>>
  /\ loading = TRUE
  /\ error = None
  /\ lastUpdated = None
  /\ mounted = FALSE
  /\ calls = <<>>
  /\ storage = [k \in StorageKeys |-> None]
  /\ now = 0
  /\ taskTable = <<[taskId |-> 1, url |-> URL_jira1, teamId |-> 2, projectId |-> 1]>>
  /\ last = [op |-> "init"]

TaskResponse(httpStatus, status, errorCode) ==
  [httpStatus |-> httpStatus, status |-> status, errorCode |-> errorCode]

\* POST up to the loop over listUrl: the parameters, the body, the team, the
\* project and their relationship are validated
TaskPOST(teamId, projectId, type, listUrl) ==
  LET rejected ==
        IF teamId = <<>> \/ projectId = <<>>
        THEN Some(TaskResponse(400, "error", "VALIDATION_ERROR"))
        ELSE IF listUrl = <<>>
        THEN Some(TaskResponse(400, "error", "VALIDATION_ERROR"))
        ELSE IF parseInt(teamId) \notin TeamTable
        THEN Some(TaskResponse(404, "error", "NOT_FOUND"))
        ELSE IF parseInt(projectId) \notin ProjectTable
        THEN Some(TaskResponse(404, "error", "NOT_FOUND"))
        ELSE IF <<parseInt(teamId), parseInt(projectId)>> \notin Teams_Projects
        THEN Some(TaskResponse(404, "error", "NOT_FOUND"))
        ELSE None
      stored == rejected = None /\
                \E i \in 1..Len(listUrl) :
                  Stored(taskTable, teamId, projectId, listUrl[i]) # {}
  IN /\ Len(calls) < MaxInFlight
     /\ Len(taskTable) + Pending(calls) + Len(listUrl) <= MaxTaskRows
     /\ IF rejected # None
        THEN /\ last' = [op |-> "POST /api/task", teamId |-> teamId,
                         projectId |-> projectId, listUrl |-> listUrl,
                         stored |-> stored, tableBefore |-> taskTable,
                         response |-> rejected[1], inserted |-> 0]
             /\ UNCHANGED calls
        ELSE /\ calls' = Append(calls,
                           [pc |-> "check", teamId |-> teamId,
                            projectId |-> projectId, type |-> type,
                            listUrl |-> listUrl, i |-> 1,
                            tasksToInsert |-> <<>>, validationErrors |-> <<>>,
                            stored |-> stored])
             /\ UNCHANGED last
     /\ UNCHANGED <<tasks, loading, error, lastUpdated, mounted, storage, now,
                    taskTable>>

\* one iteration of the loop over listUrl of the request at position k
TaskPOSTChecksUrl(k, checkError) ==
  /\ k \in 1..Len(calls)
  /\ calls[k].i <= Len(calls[k].listUrl)
  /\ LET c == calls[k]
         url == c.listUrl[c.i]
         parsedUrl == parseTaskUrl(url)
         existingTask ==
           IF checkError THEN None
           ELSE SelectExistingTask(taskTable, c.teamId, c.projectId, url)
         failure ==
           IF parsedUrl = None THEN Some("Invalid URL format")
           ELSE IF parsedUrl[1] # c.type THEN Some("Type mismatch")
           ELSE IF existingTask # None
           THEN Some("Task with this URL already exists")
           ELSE None
     IN calls' =
          [calls EXCEPT ![k] =
             [c EXCEPT
                !.i = c.i + 1,
                !.validationErrors =
                   IF failure = None THEN @
                   ELSE Append(@, [index |-> c.i, message |-> failure[1]]),
                !.tasksToInsert =
                   IF failure # None THEN @
                   ELSE Append(@, [teamId |-> parseInt(c.teamId),
                                   projectId |-> parseInt(c.projectId),
                                   url |-> url])]]
  /\ UNCHANGED <<tasks, loading, error, lastUpdated, mounted, storage, now,
                 taskTable, last>>

\* after the loop: the validation errors are reported, or the tasks are
\* inserted
TaskPOSTResponds(k, insertError) ==
  /\ k \in 1..Len(calls)
  /\ calls[k].i > Len(calls[k].listUrl)
  /\ LET c == calls[k]
         inserts == c.validationErrors = <<>> /\ c.tasksToInsert # <<>>
                    /\ ~insertError
         response ==
           IF c.validationErrors # <<>>
           THEN TaskResponse(400, "error", "VALIDATION_ERROR")
           ELSE IF c.tasksToInsert = <<>>
           THEN TaskResponse(400, "error", "NO_VALID_TASKS")
           ELSE IF insertError
           THEN TaskResponse(500, "error", "DB_ERROR")
           ELSE TaskResponse(200, "success", "null")
     IN /\ taskTable' = (IF inserts THEN InsertTasks(taskTable, c.tasksToInsert)
                         ELSE taskTable)
        /\ last' = [op |-> "POST /api/task", teamId |-> c.teamId,
                    projectId |-> c.projectId, listUrl |-> c.listUrl,
                    stored |-> c.stored, tableBefore |-> taskTable,
                    response |-> response,
                    inserted |-> (IF inserts THEN Len(c.tasksToInsert) ELSE 0)]
        /\ calls' = RemoveAt(calls, k)
  /\ UNCHANGED <<tasks, loading, error, lastUpdated, mounted, storage, now>>

NextTask ==
  \/ \E teamId \in PostTeamIds, projectId \in PostProjectIds,
        type \in PostTypes, listUrl \in PostListUrls :
       TaskPOST(teamId, projectId, type, listUrl)
  \/ \E k \in 1..MaxInFlight, checkError \in BOOLEAN : TaskPOSTChecksUrl(k, checkError)
  \/ \E k \in 1..MaxInFlight, insertError \in BOOLEAN : TaskPOSTResponds(k, insertError)

SpecTask == InitTask /\ [][NextTask]_vars

\* ------------------------------------------------------------------------
\* getListGeneralInfoOfJiraTicket, ticket by ticket and batch by batch
\* (SpecJira)
\* ------------------------------------------------------------------------
\* parseJiraUrl(jiraUrl): new URL(jiraUrl), then the first match of
\* /\/(?:browse|issues)\/([A-Z0-9]+-\d+)/i in its pathname; None for null
parseJiraUrl(jiraUrl) ==
  LET n == Len(jiraUrl)
      seps == {j \in 2..(n - 3) : SubSeq(jiraUrl, j, j + 2) = <<":","/","/">>}
      sep == CHOOSE j \in seps : \A k \in seps : j <= k
      ends == {k \in (sep + 3)..n : jiraUrl[k] \in {"/", "?", "#"}}
      hostEnd == IF ends = {} THEN n + 1
                 ELSE CHOOSE k \in ends : \A m \in ends : k <= m
      stops == {k \in hostEnd..n : jiraUrl[k] \in {"?", "#"}}
      pathEnd == IF stops = {} THEN n + 1
                 ELSE CHOOSE k \in stops : \A m \in stops : k <= m
      pathname == SubSeq(jiraUrl, hostEnd, pathEnd - 1)
      lower == toLowerCase(pathname)
      len == Len(pathname)
      alnum == {LowerChars[i] : i \in 1..Len(LowerChars)}
                 \cup {"0","1","2","3","4","5","6","7","8","9"}
      digit == {"0","1","2","3","4","5","6","7","8","9"}
      \* the end of the longest run of characters of set from position q on
      runEnd(q, set) ==
        CHOOSE e \in (q - 1)..len :
          /\ \A m \in q..e : lower[m] \in set
          /\ (e < len => lower[e + 1] \notin set)
      keyEnd(p) ==
        LET a == runEnd(p + 8, alnum)
        IN IF a >= p + 8 /\ a + 2 <= len /\ lower[a + 1] = "-"
                /\ lower[a + 2] \in digit
           THEN runEnd(a + 2, digit) ELSE 0
      matches ==
        {p \in 1..(len - 7) :
           /\ SubSeq(lower, p, p + 7) \in
                { <<"/","b","r","o","w","s","e","/">>,
                  <<"/","i","s","s","u","e","s","/">> }
           /\ keyEnd(p) > 0}
      first == CHOOSE p \in matches : \A m \in matches : p <= m
  IN IF seps = {} \/ hostEnd = sep + 3 THEN None
     ELSE IF matches = {} THEN None
     ELSE Some([baseUrl |-> toLowerCase(SubSeq(jiraUrl, 1, hostEnd - 1)),
                issueKey |-> SubSeq(pathname, first + 8, keyEnd(first))])

\* fetchSingleTicketGeneralInfo(jiraUrl): the general info, or None for the
\* null it returns from its catch. credentials: JIRA_AUTH_TOKEN, or
\* JIRA_EMAIL and JIRA_API_TOKEN, are set; answer: what the issue tracker
\* does with the request ("ok" with the status name, "not ok", "aborted")
fetchSingleTicketGeneralInfo(jiraUrl, credentials, answer) ==
  IF parseJiraUrl(jiraUrl) = None THEN None
  ELSE IF ~credentials THEN None
  ELSE IF answer.kind # "ok" THEN None
  ELSE Some([url |-> jiraUrl, ticketStatus |-> answer.status[1]])

concurrencyLimit == 5

\* the results of a batch that loses its tickets when one of them fails
JiraBatchResultsAllOrNothing(batch, credentials, answers) ==
  LET infos == [k \in 1..Len(batch) |->
                  fetchSingleTicketGeneralInfo(batch[k], credentials, answers[k])]
  IN IF \E k \in 1..Len(batch) : infos[k] = None THEN <<>>
     ELSE [k \in 1..Len(batch) |-> infos[k][1]]

\* Promise.all(batchPromises) then the filter of the nulls
JiraBatchResults(batch, credentials, answers) ==
  LET infos == [k \in 1..Len(batch) |->
                  fetchSingleTicketGeneralInfo(batch[k], credentials, answers[k])]
      kept == SelectSeq(Indices(batch), LAMBDA k : infos[k] # None)
  IN [k \in 1..Len(kept) |-> infos[kept[k]][1]]

URL_jiraIssues == <<"h","t","t","p","s",":","/","/","a",".","a","t","l","a","s","s","i","a","n",".","n","e","t","/","p","r","o","j","e","c","t","s","/","A","B","/","i","s","s","u","e","s","/","A","B","-","3">>

\* a locator of the list with what the issue tracker answers for it
LocatorCases ==
  { [url |-> URL_jira1, answer |-> [kind |-> "ok", status |-> Some(L_DONE)]],
    [url |-> URL_jiraIssues, answer |-> [kind |-> "not ok", status |-> None]],
    [url |-> URL_jira2, answer |-> [kind |-> "aborted", status |-> None]],
    [url |-> URL_other, answer |-> [kind |-> "ok", status |-> Some(L_DONE)]] }

MaxLocators == 6

InitJira ==
  /\ tasks = <<>>
  /\ loading = TRUE
  /\ error = None
  /\ lastUpdated = None
  /\ mounted = FALSE
  /\ \E n \in 0..MaxLocators, credentials \in BOOLEAN :
       \E cases \in [1..n -> LocatorCases] :
         calls = <<[pc |-> "called",
                    listUrl |-> [k \in 1..n |-> cases[k].url],
                    answers |-> [k \in 1..n |-> cases[k].answer],
                    credentials |-> credentials,
                    i |-> 0, results |-> <<>>]>>
  /\ storage = [k \in StorageKeys |-> None]
  /\ now = 0
  /\ taskTable = <<>>
  /\ last = [op |-> "init"]

JiraReturns(c, results) ==
  /\ calls' = <<>>
  /\ last' = [op |-> "getListGeneralInfoOfJiraTicket", listUrl |-> c.listUrl,
              answers |-> c.answers, credentials |-> c.credentials,
              threw |-> FALSE, value |-> results]

\* the call up to its first batch
GetListGeneralInfoOfJiraTicket ==
  /\ calls # <<>>
  /\ calls[1].pc = "called"
  /\ IF calls[1].listUrl = <<>>
     THEN JiraReturns(calls[1], <<>>)
     ELSE /\ calls' = <<[calls[1] EXCEPT !.pc = "batch"]>>
          /\ UNCHANGED last
  /\ UNCHANGED <<tasks, loading, error, lastUpdated, mounted, storage, now,
                 taskTable>>

\* one turn of the loop: the batch at i settles and its tickets are pushed
JiraBatchSettles ==
  /\ calls # <<>>
  /\ calls[1].pc = "batch"
  /\ LET c == calls[1]
         to == IF c.i + concurrencyLimit < Len(c.listUrl)
               THEN c.i + concurrencyLimit ELSE Len(c.listUrl)
         results == c.results \o
                    JiraBatchResults(SubSeq(c.listUrl, c.i + 1, to), c.credentials,
                                     SubSeq(c.answers, c.i + 1, to))
     IN IF c.i + concurrencyLimit < Len(c.listUrl)
        THEN /\ calls' = <<[c EXCEPT !.i = c.i + concurrencyLimit,
                                     !.results = results]>>
             /\ UNCHANGED last
        ELSE JiraReturns(c, results)
  /\ UNCHANGED <<tasks, loading, error, lastUpdated, mounted, storage, now,
                 taskTable>>

NextJira ==
  \/ GetListGeneralInfoOfJiraTicket
  \/ JiraBatchSettles

SpecJira == InitJira /\ [][NextJira]_vars

\* ------------------------------------------------------------------------
\* extractRowNumberFromRowUrl over row URLs (SpecSheet)
\* ------------------------------------------------------------------------
\* fault variant: only /range=(\d+):(\d+)/ is tried
extractRowNumberFromRowUrlRangeOnly(rowUrl) ==
  LET len == Len(rowUrl)
      digit == {"0","1","2","3","4","5","6","7","8","9"}
      at(k) == IF k <= len THEN rowUrl[k] ELSE ""
      runEnd(q) ==
        CHOOSE e \in (q - 1)..len :
          /\ \A m \in q..e : rowUrl[m] \in digit
          /\ at(e + 1) \notin digit
      hits == {p \in 1..(len - 5) :
                 /\ SubSeq(rowUrl, p, p + 5) = <<"r","a","n","g","e","=">>
                 /\ runEnd(p + 6) >= p + 6
                 /\ at(runEnd(p + 6) + 1) = ":"
                 /\ at(runEnd(p + 6) + 2) \in digit}
      first == CHOOSE p \in hits : \A q \in hits : p <= q
  IN IF hits = {} THEN None
     ELSE Some(parseInt(SubSeq(rowUrl, first + 6, runEnd(first + 6))))

\* the three regular expressions of extractRowNumberFromRowUrl, tried in
\* order: /range=(\d+):(\d+)/, /range=[A-Z]+(\d+):[A-Z]+(\d+)/ and
\* /range=(\d+)$/; each yields the positions of its first capture at its
\* leftmost match.  None when the function throws.
extractRowNumberFromRowUrl(rowUrl) ==
  LET len == Len(rowUrl)
      digit == {"0","1","2","3","4","5","6","7","8","9"}
      upper == {UpperChars[i] : i \in 1..Len(UpperChars)}
      at(k) == IF k <= len THEN rowUrl[k] ELSE ""
      \* the end of the longest run of characters of set from position q on
      runEnd(q, set) ==
        CHOOSE e \in (q - 1)..len :
          /\ \A m \in q..e : rowUrl[m] \in set
          /\ at(e + 1) \notin set
      starts == {p \in 1..(len - 5) :
                   SubSeq(rowUrl, p, p + 5) = <<"r","a","n","g","e","=">>}
      \* /range=(\d+):(\d+)/ at p
      range(p) ==
        LET a == runEnd(p + 6, digit)
        IN IF a >= p + 6 /\ at(a + 1) = ":" /\ at(a + 2) \in digit
           THEN Some(SubSeq(rowUrl, p + 6, a)) ELSE None
      \* /range=[A-Z]+(\d+):[A-Z]+(\d+)/ at p
      cellRange(p) ==
        LET u == runEnd(p + 6, upper)
            a == runEnd(u + 1, digit)
            v == runEnd(a + 2, upper)
        IN IF /\ u >= p + 6
              /\ a >= u + 1
              /\ at(a + 1) = ":"
              /\ v >= a + 2
              /\ at(v + 1) \in digit
           THEN Some(SubSeq(rowUrl, u + 1, a)) ELSE None
      \* /range=(\d+)$/ at p
      simpleRange(p) ==
        LET a == runEnd(p + 6, digit)
        IN IF a >= p + 6 /\ a = len
           THEN Some(SubSeq(rowUrl, p + 6, a)) ELSE None
      rangeAt == {p \in starts : range(p) # None}
      cellRangeAt == {p \in starts : cellRange(p) # None}
      simpleRangeAt == {p \in starts : simpleRange(p) # None}
      leftmost(ps) == CHOOSE p \in ps : \A q \in ps : p <= q
  IN IF rangeAt # {} THEN Some(parseInt(range(leftmost(rangeAt))[1]))
     ELSE IF cellRangeAt # {}
     THEN Some(parseInt(cellRange(leftmost(cellRangeAt))[1]))
     ELSE IF simpleRangeAt # {}
     THEN Some(parseInt(simpleRange(leftmost(simpleRangeAt))[1]))
     ELSE None

\* String(n) for n >= 0
DecimalString(n) ==
  LET digits == <<"0","1","2","3","4","5","6","7","8","9">>
      RECURSIVE str(_)
      str(k) == IF k < 10 THEN <<digits[k + 1]>>
                ELSE str(k \div 10) \o <<digits[(k % 10) + 1]>>
  IN str(n)

MaxRowNumber == 12

\* a spreadsheet URL up to its range
SheetUrlPrefix == <<"h","t","t","p","s",":","/","/","d","o","c","s",".","g","o","o","g","l","e",".","c","o","m","/","s","p","r","e","a","d","s","h","e","e","t","s","/","d","/","s","1","/","e","d","i","t","#","g","i","d","=","0">>

ColumnLetters == {<<"A">>, <<"F">>, <<"A","B">>}

\* the row URLs: the three range forms for every row, and URLs without range
RowUrlCases ==
  { [form |-> "N:N", row |-> n,
     rowUrl |-> SheetUrlPrefix \o <<"&","r","a","n","g","e","=">>
                \o DecimalString(n) \o <<":">> \o DecimalString(n)] :
      n \in 1..MaxRowNumber }
  \cup
  { [form |-> "AN:FN", row |-> n,
     rowUrl |-> SheetUrlPrefix \o <<"&","r","a","n","g","e","=">>
                \o c \o DecimalString(n) \o <<":">> \o d \o DecimalString(n)] :
      n \in 1..MaxRowNumber, c \in ColumnLetters, d \in ColumnLetters }
  \cup
  { [form |-> "N", row |-> n,
     rowUrl |-> SheetUrlPrefix \o <<"&","r","a","n","g","e","=">>
                \o DecimalString(n)] :
      n \in 1..MaxRowNumber }
  \cup
  { [form |-> "none", row |-> 0, rowUrl |-> u] :
      u \in {SheetUrlPrefix, URL_jira1, URL_other,
             SheetUrlPrefix \o <<"&","r","a","n","g","e">>} }

InitSheet ==
  /\ tasks = <<>>
  /\ loading = TRUE
  /\ error = None
  /\ lastUpdated = None
  /\ mounted = FALSE
  /\ \E case \in RowUrlCases : calls = <<case>>
  /\ storage = [k \in StorageKeys |-> None]
  /\ now = 0
  /\ taskTable = <<>>
  /\ last = [op |-> "init"]

ExtractRowNumberFromRowUrl ==
  /\ calls # <<>>
  /\ calls' = <<>>
  /\ last' = [op |-> "extractRowNumberFromRowUrl", form |-> calls[1].form,
              row |-> calls[1].row, rowUrl |-> calls[1].rowUrl,
              result |-> extractRowNumberFromRowUrl(calls[1].rowUrl)]
  /\ UNCHANGED <<tasks, loading, error, lastUpdated, mounted, storage, now,
                 taskTable>>

NextSheet == ExtractRowNumberFromRowUrl

SpecSheet == InitSheet /\ [][NextSheet]_vars

\* ------------------------------------------------------------------------
\* One run of GET /api/tasks-status at the grain of the single requests
\* (SpecRun): the route awaits the issue-tracker adapter, then the sheet
\* adapter; each request of an adapter starts and settles in a step of its
\* own.  calls holds the run; jiraRequested / sheetRequested log the
\* positions of the locators in the order their fetch was started.
\* ------------------------------------------------------------------------
JiraUrlOf(k) == <<"h","t","t","p","s",":","/","/","a",".","a","t","l","a","s","s","i","a","n",".","n","e","t","/","b","r","o","w","s","e","/","A","B","-">> \o DecimalString(k)

SheetUrlOf(k) == SheetUrlPrefix \o <<"&","r","a","n","g","e","=">> \o DecimalString(k) \o <<":">> \o DecimalString(k)

\* a Task table of nJ ticket rows followed by nS sheet rows
RunTable(nJ, nS) ==
  [k \in 1..(nJ + nS) |->
     IF k <= nJ
     THEN [taskId |-> k, url |-> JiraUrlOf(k), teamId |-> 1, projectId |-> 1,
           type |-> 1]
     ELSE [taskId |-> k, url |-> SheetUrlOf(k - nJ), teamId |-> 2,
           projectId |-> 1, type |-> 0]]

PendingAnswer == [kind |-> "pending", status |-> None]

\* what the issue tracker does with one request
TicketAnswers == { [kind |-> "ok", status |-> Some(L_DONE)],
                   [kind |-> "aborted", status |-> None] }

InitRun ==
  /\ tasks = <<>>
  /\ loading = TRUE
  /\ error = None
  /\ lastUpdated = None
  /\ mounted = FALSE
  /\ calls = <<[pc |-> "called", jiraUrls |-> <<>>, sheetUrls |-> <<>>,
                i |-> 0, jiraRequested |-> <<>>, jiraInFlight |-> {},
                answers |-> <<>>, results |-> <<>>,
                sheetRequested |-> <<>>, sheetInFlight |-> {}, rows |-> <<>>]>>
  /\ storage = [k \in StorageKeys |-> None]
  /\ now = 0
  /\ taskTable \in {RunTable(nJ, nS) : nJ \in 0..MaxLocators, nS \in 0..MaxRows}
  /\ last = [op |-> "init"]

\* fault variant: the batch at i is the whole rest of the list
JiraBatchUncapped(listUrl, i) == [k \in 1..(Len(listUrl) - i) |-> i + k]

\* listUrl.slice(i, i + concurrencyLimit), as positions of listUrl
JiraBatch(listUrl, i) ==
  LET to == IF i + concurrencyLimit < Len(listUrl)
            THEN i + concurrencyLimit ELSE Len(listUrl)
  IN [k \in 1..(to - i) |-> i + k]

\* batch.map(async ...): the fetch of every ticket of the batch at c.i starts
JiraBatchStarted(c) ==
  LET batch == JiraBatch(c.jiraUrls, c.i)
  IN [c EXCEPT !.pc = "jira",
               !.jiraRequested = @ \o batch,
               !.jiraInFlight = {batch[k] : k \in 1..Len(batch)}]

\* one turn of for (const rowUrl of rowUrls): await getSheetRowData(rowUrl)
SheetRowStarted(c) ==
  LET row == Len(c.rows) + 1
  IN [c EXCEPT !.pc = "sheet",
               !.sheetRequested = Append(@, row),
               !.sheetInFlight = {row}]

\* the handler returns its response
RunResponds(c, dbFailed) ==
  LET jiraTasks == SelectSeq(taskTable, IsJiraTask)
      sheetTasks == SelectSeq(taskTable, IsSheetTask)
      jiraFetched == [k \in 1..Len(c.answers) |->
                        IF c.answers[k].kind = "ok" THEN c.answers[k].status
                        ELSE None]
  IN /\ calls' = <<>>
     /\ last' = [op |-> "GET /api/tasks-status", dbFailed |-> dbFailed,
                 jiraFetched |-> jiraFetched, sheetFetched |-> c.rows,
                 jiraRequested |-> c.jiraRequested,
                 sheetRequested |-> c.sheetRequested,
                 response |->
                   IF dbFailed THEN DbErrorResponse
                   ELSE IF Len(taskTable) = 0
                        THEN SuccessResponse("No tasks found", <<>>)
                   ELSE SuccessResponse("Successfully fetched status",
                          JiraPart(jiraTasks, [threw |-> FALSE, value |-> c.results])
                          \o SheetPart(sheetTasks,
                                       getMultipleSheetRowsData(c.sheetUrls, c.rows)))]

\* GET up to its first await on an adapter: the list query, the partition
\* by URL, and the call of the adapter of the first partition that has rows
TasksStatusGETStarts ==
  /\ calls # <<>>
  /\ calls[1].pc = "called"
  /\ \E dbFailed \in BOOLEAN :
       LET jiraUrls == UrlsOf(SelectSeq(taskTable, IsJiraTask))
           sheetUrls == UrlsOf(SelectSeq(taskTable, IsSheetTask))
           c == [calls[1] EXCEPT !.jiraUrls = jiraUrls, !.sheetUrls = sheetUrls,
                                 !.answers = [k \in 1..Len(jiraUrls) |-> PendingAnswer]]
       IN IF dbFailed \/ Len(taskTable) = 0 THEN RunResponds(calls[1], dbFailed)
          ELSE IF Len(jiraUrls) > 0
               THEN calls' = <<JiraBatchStarted(c)>> /\ UNCHANGED last
          ELSE IF Len(sheetUrls) > 0
               THEN calls' = <<SheetRowStarted(c)>> /\ UNCHANGED last
          ELSE RunResponds(c, FALSE)
  /\ UNCHANGED <<tasks, loading, error, lastUpdated, mounted, storage, now,
                 taskTable>>

\* fetchSingleTicketGeneralInfo of the ticket at position k settles
JiraTicketSettles(k, answer) ==
  /\ calls # <<>>
  /\ calls[1].pc = "jira"
  /\ k \in calls[1].jiraInFlight
  /\ calls' = <<[calls[1] EXCEPT !.answers[k] = answer,
                                 !.jiraInFlight = @ \ {k}]>>
  /\ UNCHANGED <<tasks, loading, error, lastUpdated, mounted, storage, now,
                 taskTable, last>>

\* await Promise.all(batchPromises) resumes: the tickets of the batch are
\* pushed in the order of the batch; then the delay, or the return
JiraBatchCompletes ==
  /\ calls # <<>>
  /\ calls[1].pc = "jira"
  /\ calls[1].jiraInFlight = {}
  /\ LET c == calls[1]
         batch == JiraBatch(c.jiraUrls, c.i)
         results == c.results \o
                    JiraBatchResults([k \in 1..Len(batch) |-> c.jiraUrls[batch[k]]],
                                     TRUE,
                                     [k \in 1..Len(batch) |-> c.answers[batch[k]]])
     IN IF c.i + concurrencyLimit < Len(c.jiraUrls)
        THEN /\ calls' = <<[c EXCEPT !.pc = "delay", !.results = results]>>
             /\ UNCHANGED last
        ELSE /\ calls' = <<[c EXCEPT !.pc = "jiraReturned", !.results = results]>>
             /\ last' = [op |-> "getListGeneralInfoOfJiraTicket",
                         listUrl |-> c.jiraUrls, answers |-> c.answers,
                         requested |-> c.jiraRequested, value |-> results]
  /\ UNCHANGED <<tasks, loading, error, lastUpdated, mounted, storage, now,
                 taskTable>>

\* the 200 ms between two batches are over: i += concurrencyLimit
JiraDelayEnds ==
  /\ calls # <<>>
  /\ calls[1].pc = "delay"
  /\ calls' = <<JiraBatchStarted([calls[1] EXCEPT !.i = @ + concurrencyLimit])>>
  /\ UNCHANGED <<tasks, loading, error, lastUpdated, mounted, storage, now,
                 taskTable, last>>

\* GET after await getListGeneralInfoOfJiraTicket(jiraUrls): the ticket
\* records are mapped, then the sheet adapter is called if there are sheet
\* tasks
TasksStatusGETAfterJira ==
  /\ calls # <<>>
  /\ calls[1].pc = "jiraReturned"
  /\ IF Len(calls[1].sheetUrls) > 0
     THEN calls' = <<SheetRowStarted(calls[1])>> /\ UNCHANGED last
     ELSE RunResponds(calls[1], FALSE)
  /\ UNCHANGED <<tasks, loading, error, lastUpdated, mounted, storage, now,
                 taskTable>>

\* await getSheetRowData(rowUrl) settles (a throw is caught and is the
\* outcome None); the loop goes on to the next row, or the adapter returns
\* and GET maps the rows and responds
SheetRowSettles ==
  /\ calls # <<>>
  /\ calls[1].pc = "sheet"
  /\ \E row \in calls[1].sheetInFlight :
       \E outcome \in RowOutcomes(calls[1].sheetUrls[row]) :
         LET c == [calls[1] EXCEPT !.rows = Append(@, outcome),
                                   !.sheetInFlight = {}]
         IN IF row < Len(c.sheetUrls)
            THEN calls' = <<SheetRowStarted(c)>> /\ UNCHANGED last
            ELSE RunResponds(c, FALSE)
  /\ UNCHANGED <<tasks, loading, error, lastUpdated, mounted, storage, now,
                 taskTable>>

NextRun ==
  \/ TasksStatusGETStarts
  \/ \E k \in 1..MaxLocators, answer \in TicketAnswers :
       JiraTicketSettles(k, answer)
  \/ JiraBatchCompletes
  \/ JiraDelayEnds
  \/ TasksStatusGETAfterJira
  \/ SheetRowSettles

SpecRun == InitRun /\ [][NextRun]_vars

\* ------------------------------------------------------------------------
\* The store together with the other users of localStorage (SpecFrame)
\* ------------------------------------------------------------------------
\* the five read-side functions of the context, called by a consumer
StoreQueries(projectId, teamId) ==
  /\ mounted
  /\ last' = [op |-> "query", projectId |-> projectId, teamId |-> teamId,
              projectProgress |-> getProjectProgress(tasks, projectId),
              teamProgress |-> getTeamProgress(tasks, projectId, teamId),
              tasksByProject |-> getTasksByProject(tasks, projectId),
              tasksByTeam |-> getTasksByTeam(tasks, projectId, teamId),
              notDone |-> getNotDoneTasksByTeam(tasks, projectId, teamId)]
  /\ UNCHANGED <<storeVars, storage, now, taskTable>>

\* CacheManager.isValid(key): this.get(key) !== null
CacheManagerIsValid(key) ==
  LET got == CacheGet(storage, key, now)
  IN /\ storage' = got.storage
     /\ last' = [op |-> "isValid", key |-> key, entryBefore |-> storage[key],
                 result |-> (got.value # None \/ got.undefined)]
     /\ UNCHANGED <<storeVars, now, taskTable>>

\* one refresh at a time
NextFrame ==
  \/ FetchOnMount
  \/ (calls = <<>> /\ RefreshTasks)
  \/ \E i \in 1..Len(calls) : FetchRejects(i)
  \/ \E i \in 1..Len(calls) : FetchResolves(i)
  \/ \E i \in 1..Len(calls) : JsonSettles(i)
  \/ ClearCache
  \/ Tick
  \/ Reload
  \/ \E p \in ProjectIds, t \in TeamIds : StoreQueries(p, t)
  \/ CacheManagerGet(CACHE_KEYS_TASK_STATUS)
  \/ CacheManagerIsValid(CACHE_KEYS_TASK_STATUS)
  \/ CacheManagerClearAll
  \/ \E isSuccess \in BOOLEAN : CachedApiServiceAddTask(<<"1">>, <<"1">>, isSuccess)
  \/ \E isSuccess \in BOOLEAN : CachedApiServiceCreateProject(isSuccess)

SpecFrame == Init /\ [][NextFrame]_vars

\* ========================================================================
\* Claims
\* ========================================================================
IsProgressQuery == last.op \in {"getProjectProgress", "getTeamProgress"}

\* the tasks a progress query of `last` ranges over, by position in tasks
Matching ==
  {i \in 1..Len(tasks) :
     /\ tasks[i].projectId = last.projectId
     /\ (last.op \in {"getTeamProgress", "getNotDoneTasksByTeam"}
           => tasks[i].teamId = last.teamId)}

MatchingWith(labels) == {i \in Matching : tasks[i].status \in labels}

\* the labels of TaskKinds by the class the store puts them in
StoreDoneLabels == {L_DONE, L_Completed}

\* C1: the record returned by getProjectProgress / getTeamProgress has
\* doneTasks + inProgressTasks + otherStatusTasks = totalTasks, each of the
\* three counts >= 0, and 0 <= progress <= 100.
C1_CountsPartitionTotal ==
  (IsProgressQuery /\ last.result # None) =>
    LET r == last.result[1]
    IN /\ r.totalTasks = Cardinality(Matching)
       /\ r.doneTasks + r.inProgressTasks + r.otherStatusTasks = r.totalTasks
       /\ r.doneTasks >= 0
       /\ r.inProgressTasks >= 0
       /\ r.otherStatusTasks >= 0
       /\ 0 <= r.progress
       /\ r.progress <= 100

C1_Witness ==
  /\ last.op = "getTeamProgress"
  /\ last.result # None
  /\ last.result[1].doneTasks >= 1
  /\ last.result[1].inProgressTasks >= 1
  /\ last.result[1].otherStatusTasks >= 1

\* C2 (as claimed): a task is counted as done iff its label, lower-cased,
\* equals or contains done, complete(d), closed or resolved.
ClaimedDone(status) ==
  \/ includes(toLowerCase(status), <<"d","o","n","e">>)
  \/ includes(toLowerCase(status), <<"c","o","m","p","l","e","t","e">>)
  \/ includes(toLowerCase(status), <<"c","l","o","s","e","d">>)
  \/ includes(toLowerCase(status), <<"r","e","s","o","l","v","e","d">>)

C2_DoneAsClaimed ==
  (IsProgressQuery /\ last.result # None) =>
    last.result[1].doneTasks =
      Cardinality({i \in Matching : ClaimedDone(tasks[i].status)})

C2_Witness ==
  /\ last.op = "getProjectProgress"
  /\ last.result # None
  /\ MatchingWith({L_Resolved}) # {}
  /\ MatchingWith({L_DONE}) # {}
  /\ last.result[1].doneTasks = 1
  /\ last.result[1].totalTasks = 2

\* C3: a task that is not done is counted as in progress iff its label
\* contains "progress" or "developing" or equals "in review" (any case);
\* every task neither done nor in progress is counted in otherStatusTasks.
ClaimedInProgress(status) ==
  \/ includes(toLowerCase(status), <<"p","r","o","g","r","e","s","s">>)
  \/ includes(toLowerCase(status), <<"d","e","v","e","l","o","p","i","n","g">>)
  \/ toLowerCase(status) = <<"i","n"," ","r","e","v","i","e","w">>

C3_InProgressAndOther ==
  (IsProgressQuery /\ last.result # None) =>
    LET notDone == Matching \ MatchingWith(StoreDoneLabels)
        inProgress == {i \in notDone : ClaimedInProgress(tasks[i].status)}
    IN /\ last.result[1].inProgressTasks = Cardinality(inProgress)
       /\ last.result[1].otherStatusTasks = Cardinality(notDone \ inProgress)

C3_Witness ==
  /\ last.op = "getProjectProgress"
  /\ last.result # None
  /\ MatchingWith({L_InReview}) # {}
  /\ MatchingWith({L_ToDo}) # {}
  /\ last.result[1].inProgressTasks = 1
  /\ last.result[1].otherStatusTasks = 1

\* C4: getProjectProgress / getTeamProgress return null exactly when the
\* in-memory list has no task of the project (and team), in every store
\* state.
C4_NullIffNoMatchingTask ==
  /\ \A p \in ProjectIds :
       (getProjectProgress(tasks, p) = None)
         <=> ~(\E i \in 1..Len(tasks) : tasks[i].projectId = p)
  /\ \A p \in ProjectIds, t \in TeamIds :
       (getTeamProgress(tasks, p, t) = None)
         <=> ~(\E i \in 1..Len(tasks) :
                 tasks[i].projectId = p /\ tasks[i].teamId = t)

C4_Witness ==
  /\ loading
  /\ mounted
  /\ getProjectProgress(tasks, 1) # None
  /\ getTeamProgress(tasks, 1, 2) = None
  /\ getTeamProgress(tasks, 1, 1) # None

\* percent is done / total * 100 rounded to the nearest integer (half up)
RoundsTo(percent, done, total) ==
  /\ 2 * percent * total <= 200 * done + total
  /\ 200 * done + total < 2 * percent * total + 2 * total

\* the labels of TaskKinds that lib calculateProgress counts as completed
LibDoneLabels == {L_DONE, L_Completed, L_closedSp, L_Resolved}

CountOf(statuses, labels) ==
  Cardinality({i \in 1..Len(statuses) : statuses[i] \in labels})

C5_Rounded ==
  /\ (IsProgressQuery /\ last.result # None) =>
       RoundsTo(last.result[1].progress,
                Cardinality(MatchingWith(StoreDoneLabels)), Cardinality(Matching))
  /\ (last.op = "calculateProgress" /\ Len(last.statuses) > 0) =>
       RoundsTo(last.result, CountOf(last.statuses, LibDoneLabels),
                Len(last.statuses))
  /\ (last.op = "getEnhancedProjectData" /\ Matching # {}) =>
       RoundsTo(last.progress,
                Cardinality(MatchingWith(StoreDoneLabels)), Cardinality(Matching))

\* C5 (as claimed): every progress percentage is round(done / total * 100)
\* for a non-empty set and undefined, not 0, for an empty one, in
\* calculateProgress and the home page as well as in the store.
C5_UndefinedWhenEmpty ==
  /\ C5_Rounded
  /\ (IsProgressQuery /\ Matching = {}) => last.result = None
  /\ (last.op = "calculateProgress" /\ Len(last.statuses) = 0) => last.result # 0
  /\ (last.op = "getEnhancedProjectData" /\ Matching = {}) => last.progress # 0

C5_Witness ==
  /\ last.op = "calculateProgress"
  /\ last.statuses = <<>>
  /\ last.result = 0

\* C6 (as claimed): every consumer agrees with the task store on which tasks
\* are done, so one task list yields one done count and one percentage.
StoreDoneCount == Len(SelectSeq(StatusesOf(tasks), StoreIsDone))

C6_OnePolicy ==
  /\ (last.op \in {"calculateProgress", "teamRouteCalculateProgress"}
        /\ Len(tasks) > 0) =>
       last.result = Progress(StoreDoneCount, Len(tasks))
  /\ last.op = "transformApiResponseToTeamData" =>
       last.completedTickets = StoreDoneCount
  /\ last.op = "getNotDoneTasksByTeam" =>
       Len(last.result) + Cardinality(MatchingWith(StoreDoneLabels))
         = Cardinality(Matching)

C6_Witness ==
  /\ last.op = "calculateProgress"
  /\ tasks # <<>>
  /\ \A i \in 1..Len(tasks) : tasks[i].status = L_Resolved
  /\ last.result = 100
  /\ getProjectProgress(tasks, 1) # None
  /\ getProjectProgress(tasks, 1)[1].progress = 0

\* an entry that is present, parseable and unexpired at time clock
ValidEntry(st, key, clock) ==
  /\ st[key] # None
  /\ st[key][1].json
  /\ clock - st[key][1].item.timestamp <= st[key][1].item.expiresIn

\* C7: a refresh issues a network request iff forceRefresh is true or no
\* valid cache entry exists under the task-list key; a non-forced refresh
\* over a valid entry makes the in-memory list the cached data, clears the
\* error, sets loading to false and makes no network call.
C7_NetworkIffForcedOrNoValidCache ==
  last.op = "fetchTasks" =>
    LET valid == ValidEntry(last.storageBefore, CACHE_KEYS_TASK_STATUS, last.clock)
    IN /\ last.network <=> (last.forceRefresh \/ ~valid)
       /\ (~last.forceRefresh /\ valid) =>
            /\ tasks = last.storageBefore[CACHE_KEYS_TASK_STATUS][1].item.data
            /\ error = None
            /\ loading = FALSE
            /\ calls = <<>>

C7_Witness ==
  /\ last.op = "fetchTasks"
  /\ ~last.forceRefresh
  /\ ~last.network
  /\ tasks # <<>>
  /\ last.clock > 0

\* C8 (as claimed): when the task-list request fails the store ends with a
\* non-null error, an empty list and loading false; when it succeeds, error
\* is null and the list is the fetched data.
C8_RefreshOutcome ==
  /\ last.op = "refreshFailed" =>
       (error # None /\ tasks = <<>> /\ loading = FALSE)
  /\ last.op = "refreshSucceeded" =>
       (error = None /\ tasks = last.data /\ loading = FALSE)

C8_Witness ==
  /\ last.op = "refreshSucceeded"
  /\ tasks = last.data
  /\ tasks # <<>>
  /\ loading = FALSE
  /\ error # None

\* C10: the lifecycle idle -> loading -> {ready, error}.  A refresh that
\* goes to the network sets loading; one served from the cache starts from
\* loading and ends ready; the settling of a request ends in ready or error;
\* after mount, loading is true only while a request is in flight, and
\* ready or error is reached only by a completed refresh; ready and error
\* both accept a refresh.
Ready == mounted /\ ~loading /\ error = None
Failed == mounted /\ ~loading /\ error # None

C10_Lifecycle ==
  /\ (last.op = "fetchTasks" /\ last.network) => (loading /\ calls # <<>>)
  /\ (last.op = "fetchTasks" /\ ~last.network) => (last.loadingBefore /\ Ready)
  /\ last.op \in {"refreshFailed", "refreshSucceeded"} => (Ready \/ Failed)
  /\ (mounted /\ loading) => calls # <<>>
  /\ (mounted /\ ~loading) => (error # None \/ lastUpdated # None)
  /\ ((Ready \/ Failed) /\ Len(calls) < MaxInFlight) => ENABLED RefreshTasks

C10_Witness ==
  /\ Failed
  /\ last.op = "refreshFailed"
  /\ calls = <<>>
  /\ lastUpdated # None

\* ------------------------------------------------------------------------
\* GET /api/tasks-status (SpecRoute)
\* ------------------------------------------------------------------------
IsGet == last.op = "GET /api/tasks-status"

JiraUrls == UrlsOf(SelectSeq(taskTable, IsJiraTask))
SheetUrls == UrlsOf(SelectSeq(taskTable, IsSheetTask))

\* every locator of a non-empty partition failed
AllFailed(fetched) ==
  fetched # <<>> /\ \A i \in 1..Len(fetched) : fetched[i] = None

\* the status of the aggregated record for locator u: <<>> when there is none
StatusOfUrl(data, u) ==
  LET hits == SelectSeq(data, LAMBDA record : record.url = u)
  IN IF hits = <<>> THEN None ELSE Some(hits[1].status)

\* what one locator's own outcome yields when nothing else interferes
OwnTicketStatus(outcome) == IF outcome = None THEN L_Unknown ELSE outcome[1]

OwnRowStatus(outcome) ==
  IF outcome # None /\ outcome[1].url # None /\ outcome[1].status # None
  THEN outcome[1].status[1]
  ELSE L_Unknown

C9_ErrorOnlyForListQuery ==
  IsGet =>
    /\ (last.response.body.status = "error") <=> last.dbFailed
    /\ (last.response.body.status = "success") <=> ~last.dbFailed
    /\ last.dbFailed => last.response.body.data = None
    /\ ~last.dbFailed => last.response.body.data # None

C11_LastResponseWins ==
  /\ last.op = "fetchTasks" =>
       calls = (IF last.network THEN Append(last.callsBefore, NewCall)
                ELSE last.callsBefore)
  /\ last.op = "refreshSucceeded" =>
       /\ tasks = last.data
       /\ storage[CACHE_KEYS_TASK_STATUS] # None
       /\ storage[CACHE_KEYS_TASK_STATUS][1].json
       /\ storage[CACHE_KEYS_TASK_STATUS][1].item.data = last.data
  /\ last.op = "refreshFailed" => tasks = <<>>

\* the earlier refresh settles after a later one and replaces its result
C11_Witness ==
  /\ last.op = "refreshSucceeded"
  /\ last.overtaken
  /\ last.tasksBefore # <<>>
  /\ last.tasksBefore # last.data
  /\ tasks = last.data
  /\ storage[CACHE_KEYS_TASK_STATUS][1].item.data = last.data
  /\ calls = <<>>

\* ------------------------------------------------------------------------
\* CacheManager (SpecCache)
\* ------------------------------------------------------------------------
\* a value JSON represents as it is: no object holds a Date
IsJSONSerialisable(data) ==
  \A i \in 1..Len(data) :
    "updated" \in DOMAIN data[i] => data[i].updated.t = "string"

\* the entry is the text of a {data, timestamp, expiresIn} item
WellFormed(entry) ==
  /\ entry[1].json
  /\ {"data", "timestamp", "expiresIn"} \subseteq DOMAIN entry[1].item

\* the times at which a later get can run
LaterClocks == {now + 150000 * n : n \in 0..MaxTicks}

C13_CorruptIsMissAndEvicted ==
  (last.op = "get" /\ last.entryBefore # None /\ ~WellFormed(last.entryBefore)) =>
    /\ last.value = None
    /\ ~last.undefined
    /\ storage[last.key] = None
    /\ CacheGet(storage, last.key, now).value = None

\* get over the text '{"data":[...]}' : a hit, and the entry stays
C13_Witness ==
  /\ last.op = "get"
  /\ last.entryBefore # None
  /\ last.entryBefore[1].json
  /\ DOMAIN last.entryBefore[1].item = {"data"}
  /\ last.value = Some(V_plain)
  /\ storage[last.key] = last.entryBefore

\* the key begins with the six characters of 'cache_'
HasCachePrefix(key) ==
  /\ Len(key) >= 6
  /\ <<key[1], key[2], key[3], key[4], key[5], key[6]>> = <<"c","a","c","h","e","_">>

\* C14: clearAll removes every key that starts with 'cache_' and leaves
\* every other key of the storage as it was.
C14_ClearAllRemovesPrefixedKeysOnly ==
  last.op = "clearAll" =>
    \A key \in DOMAIN storage :
      IF HasCachePrefix(key) THEN storage[key] = None
      ELSE storage[key] = last.storageBefore[key]

C14_Witness ==
  /\ last.op = "clearAll"
  /\ last.storageBefore[CACHE_KEYS_PROJECTS] # None
  /\ last.storageBefore[CACHE_KEYS_TASK_STATUS] # None
  /\ last.storageBefore[CACHE_KEYS_TEAM_DETAILS(<<"1">>, <<"1">>)] # None
  /\ last.storageBefore[CACHE_KEYS_PROJECT_DETAILS(<<"1">>)] # None
  /\ storage[CACHE_KEYS_PROJECTS] = None
  /\ storage[CACHE_KEYS_TEAM_DETAILS(<<"1">>, <<"1">>)] = None
  /\ storage[KEY_my_cache_] # None
  /\ storage[KEY_theme] # None

\* C15 (as claimed): a successful addTask removes the team detail entry,
\* the project detail entry and the task list entry, a successful
\* createProject removes the project list entry, so that a non-forced read
\* of any of them misses; a failed write leaves the storage unchanged.
C15_WritesInvalidate ==
  /\ (last.op = "addTask" /\ last.isSuccess) =>
       \A key \in {CACHE_KEYS_TEAM_DETAILS(last.teamId, last.projectId),
                    CACHE_KEYS_PROJECT_DETAILS(last.projectId),
                    CACHE_KEYS_TASK_STATUS} :
         storage[key] = None /\ CacheGet(storage, key, now).value = None
  /\ (last.op = "createProject" /\ last.isSuccess) =>
       /\ storage[CACHE_KEYS_PROJECTS] = None
       /\ CacheGet(storage, CACHE_KEYS_PROJECTS, now).value = None
  /\ (last.op \in {"addTask", "createProject"} /\ ~last.isSuccess) =>
       storage = last.storageBefore

\* a successful addTask after which the task list cached before it is
\* still served
C15_Witness ==
  /\ last.op = "addTask"
  /\ last.isSuccess
  /\ last.storageBefore[CACHE_KEYS_TEAM_DETAILS(<<"1">>, <<"1">>)] # None
  /\ storage[CACHE_KEYS_TEAM_DETAILS(<<"1">>, <<"1">>)] = None
  /\ storage[CACHE_KEYS_PROJECT_DETAILS(<<"1">>)] = None
  /\ storage[CACHE_KEYS_TASK_STATUS] # None
  /\ storage[CACHE_KEYS_TASK_STATUS] = last.storageBefore[CACHE_KEYS_TASK_STATUS]
  /\ CacheGet(storage, CACHE_KEYS_TASK_STATUS, now).value = Some(V_plain)

\* C16 (as claimed): no two rows of the Task table have the same
\* (teamId, projectId, url), whatever POST /api/task requests ran and however
\* their steps interleaved.
C16_LocatorsUnique ==
  \A i, j \in 1..Len(taskTable) :
    (/\ taskTable[i].teamId = taskTable[j].teamId
     /\ taskTable[i].projectId = taskTable[j].projectId
     /\ taskTable[i].url = taskTable[j].url) => i = j

\* one request whose listUrl holds a URL twice has inserted both
C16_Witness ==
  /\ last.op = "POST /api/task"
  /\ last.listUrl = <<URL_jira1, URL_jira1>>
  /\ last.response.status = "success"
  /\ last.inserted = 2
  /\ Cardinality(Stored(last.tableBefore, <<"1">>, <<"1">>, URL_jira1)) = 0
  /\ Cardinality(Stored(taskTable, <<"1">>, <<"1">>, URL_jira1)) = 2

\* C17 (as claimed): a request with a URL that was already stored for its
\* team and project when it arrived is answered with an error and leaves the
\* Task table unchanged.
C17_DuplicateRejected ==
  (last.op = "POST /api/task" /\ last.stored) =>
    /\ last.response.status = "error"
    /\ last.inserted = 0
    /\ taskTable = last.tableBefore

\* a request for a URL the table held twice when it arrived is answered
\* with success and a further row
C17_Witness ==
  /\ last.op = "POST /api/task"
  /\ last.stored
  /\ last.listUrl = <<URL_jira1>>
  /\ Cardinality(Stored(last.tableBefore, last.teamId, last.projectId, URL_jira1)) = 2
  /\ last.response.status = "success"
  /\ Cardinality(Stored(taskTable, last.teamId, last.projectId, URL_jira1)) = 3

\* the locators of the returned call whose own fetch succeeds: the URL has
\* a /browse/{KEY} or /issues/{KEY} path, the credentials are set and the
\* issue tracker answers
OwnFetchSucceeds ==
  {k \in 1..Len(last.listUrl) :
     /\ parseJiraUrl(last.listUrl[k]) # None
     /\ last.credentials
     /\ last.answers[k].kind = "ok"}

\* C18: getListGeneralInfoOfJiraTicket never throws, and its result holds,
\* in the order of the list, exactly the locators whose own fetch succeeds,
\* whatever happens to the other locators of the same or another batch.
C18_FailureIsolated ==
  last.op = "getListGeneralInfoOfJiraTicket" =>
    /\ ~last.threw
    /\ LET succeeded == OwnFetchSucceeds
           kept == SelectSeq(Indices(last.listUrl), LAMBDA k : k \in succeeded)
       IN UrlsOf(last.value) = [j \in 1..Len(kept) |-> last.listUrl[kept[j]]]

\* three locators, the second unreachable: the first and the third are
\* returned
C18_Witness ==
  /\ last.op = "getListGeneralInfoOfJiraTicket"
  /\ Len(last.listUrl) = 3
  /\ last.answers[2].kind = "aborted"
  /\ OwnFetchSucceeds = {1, 3}
  /\ UrlsOf(last.value) = <<last.listUrl[1], last.listUrl[3]>>

C20_ClearCacheOnlyEvicts ==
  /\ last.op = "clearCache" =>
       /\ storage[CACHE_KEYS_TASK_STATUS] = None
       /\ \A k \in DOMAIN storage \ {CACHE_KEYS_TASK_STATUS} :
            storage[k] = last.storageBefore[k]
       /\ calls = last.callsBefore
       /\ tasks = last.tasksBefore
       /\ loading = last.loadingBefore
       /\ error = last.errorBefore
       /\ lastUpdated = last.lastUpdatedBefore
  /\ (last.op = "fetchTasks" /\ ~last.forceRefresh /\ last.afterClear) =>
       /\ last.storageBefore[CACHE_KEYS_TASK_STATUS] = None
       /\ last.network
       /\ Len(calls) = Len(last.callsBefore) + 1
       /\ loading

\* the entry written less than five minutes ago was removed by clearCache,
\* and the non-forced fetchTasks of the next mount goes to the network
C20_Witness ==
  /\ last.op = "fetchTasks"
  /\ ~last.forceRefresh
  /\ last.afterClear
  /\ last.network
  /\ last.clock < DEFAULT_CACHE_DURATION
  /\ storage[CACHE_KEYS_PROJECTS] # None
  /\ calls = <<NewCall>>

\* C21: the status of a project on the home page is Planning when it has
\* no task, whatever the dates; else Completed when all its tasks are done,
\* whatever the end date; else Overdue when the current instant is past the
\* end date; else In Progress.
C21_StatusPriority ==
  last.op = "getEnhancedProjectData" =>
    LET total == Cardinality(Matching)
        done == IF last.taskProgress = None THEN 0
                ELSE last.taskProgress[1].doneTasks
        past == /\ last.dueDate # None
                /\ last.currentDate > last.dueDate[1] * 86400000
    IN /\ (total = 0) => last.status = "Planning"
       /\ (total > 0 /\ done = total) => last.status = "Completed"
       /\ (total > 0 /\ done < total /\ past) => last.status = "Overdue"
       /\ (total > 0 /\ done < total /\ ~past) => last.status = "In Progress"

\* all tasks of the project are done and its end date is in the past
C21_Witness ==
  /\ last.op = "getEnhancedProjectData"
  /\ last.dueDate = Some(10)
  /\ last.currentDate > 10 * 86400000
  /\ Cardinality(Matching) = 2
  /\ last.taskProgress[1].doneTasks = 2
  /\ last.status = "Completed"

\* C22: extractRowNumberFromRowUrl returns N for a URL whose range is N:N,
\* <letters>N:<letters>N or N, and throws for a URL without range=.
C22_RowNumberResolved ==
  last.op = "extractRowNumberFromRowUrl" =>
    /\ last.form \in {"N:N", "AN:FN", "N"} => last.result = Some(last.row)
    /\ ~includes(last.rowUrl, <<"r","a","n","g","e","=">>) => last.result = None

\* range=AB12:F12 gives 12
C22_Witness ==
  /\ last.op = "extractRowNumberFromRowUrl"
  /\ last.form = "AN:FN"
  /\ includes(last.rowUrl, <<"r","a","n","g","e","=","A","B","1","2",":","F","1","2">>)
  /\ last.result = Some(12)

\* the operations of fetchTasks (the mount fetch, refreshTasks and their
\* settling) and the reload of the page, which starts a new store
RefreshOps == {"fetchTasks", "responseReceived", "refreshSucceeded",
               "refreshFailed", "reload"}

\* C23 (as claimed): the in-memory task list and the task list cache entry
\* change only in steps of the store's refresh.
C23_OnlyRefreshMutates ==
  [][(\/ tasks' # tasks
      \/ storage'[CACHE_KEYS_TASK_STATUS] # storage[CACHE_KEYS_TASK_STATUS])
       => last'.op \in RefreshOps]_vars

\* C23 (amended): the in-memory task list changes only in steps of the
\* store's refresh; the read-side functions and the write helpers change
\* neither the list nor the task list cache entry; the entry is changed only
\* by the refresh, by clearCache, by CacheManager.get / isValid (which remove
\* an expired or unreadable entry) and by CacheManager.clearAll.
C23_FrameOfListAndEntry ==
  [][/\ tasks' # tasks => last'.op \in RefreshOps
     /\ storage'[CACHE_KEYS_TASK_STATUS] # storage[CACHE_KEYS_TASK_STATUS]
          => last'.op \in RefreshOps \cup {"clearCache", "get", "isValid", "clearAll"}
     /\ last'.op \in {"query", "addTask", "createProject"}
          => /\ tasks' = tasks
             /\ storage'[CACHE_KEYS_TASK_STATUS] = storage[CACHE_KEYS_TASK_STATUS]
     /\ (last'.op \in {"get", "isValid"}
         /\ storage'[CACHE_KEYS_TASK_STATUS] # storage[CACHE_KEYS_TASK_STATUS])
          => /\ storage'[CACHE_KEYS_TASK_STATUS] = None
             /\ CacheGet(storage, CACHE_KEYS_TASK_STATUS, now).value = None]_vars

\* clearAllCache has removed the task list entry while the store holds tasks
C23_Witness ==
  /\ last.op = "clearAll"
  /\ last.storageBefore[CACHE_KEYS_TASK_STATUS] # None
  /\ storage[CACHE_KEYS_TASK_STATUS] = None
  /\ tasks # <<>>

\* the records of the aggregated list that belong to a task row
RecordsOfTask(data, task) == SelectSeq(data, LAMBDA r : r.taskId = task.taskId)

\* C27: every task row whose external record was fetched successfully
\* carries the status of that record, and 'Unknown' appears only for a task
\* whose own fetch failed or returned no record or no status field.
C27_MatchedByLocator ==
  (last.op = "GET /api/tasks-status" /\ last.response.body.data # None) =>
    LET data == last.response.body.data[1]
        jiraTasks == SelectSeq(taskTable, IsJiraTask)
        sheetTasks == SelectSeq(taskTable, IsSheetTask)
    IN /\ \A k \in 1..Len(jiraTasks) :
            LET recs == RecordsOfTask(data, jiraTasks[k])
            IN \A n \in 1..Len(recs) :
                 /\ last.jiraFetched[k] # None
                      => recs[n].status = last.jiraFetched[k][1]
                 /\ recs[n].status = L_Unknown => last.jiraFetched[k] = None
       /\ \A k \in 1..Len(sheetTasks) :
            LET recs == RecordsOfTask(data, sheetTasks[k])
                row == last.sheetFetched[k]
            IN \A n \in 1..Len(recs) :
                 /\ (row # None /\ row[1].status # None)
                      => recs[n].status = row[1].status[1]
                 /\ recs[n].status = L_Unknown
                      => (row = None \/ row[1].status = None)

\* the row of the sheet task was read and has the status 'Completed', the
\* sheet has no url column, and the aggregated record says 'Unknown'
C27_Witness ==
  /\ last.op = "GET /api/tasks-status"
  /\ last.response.body.data # None
  /\ taskTable # <<>>
  /\ taskTable[1].url = URL_sheet1
  /\ last.sheetFetched[1] = Some([url |-> None, status |-> Some(L_Completed)])
  /\ RecordsOfTask(last.response.body.data[1], taskTable[1]) # <<>>
  /\ RecordsOfTask(last.response.body.data[1], taskTable[1])[1].status = L_Unknown

\* C28: every task row of the list query appears exactly once in the
\* aggregated list, whatever its URL is: the result is as long as the table.
C28_EveryRowOnce ==
  (last.op = "GET /api/tasks-status" /\ last.response.body.data # None) =>
    /\ Len(last.response.body.data[1]) = Len(taskTable)
    /\ \A i \in 1..Len(taskTable) :
         Len(RecordsOfTask(last.response.body.data[1], taskTable[i])) = 1

\* a row whose URL names neither source is in no partition and is missing
\* from the aggregated list
C28_Witness ==
  /\ last.op = "GET /api/tasks-status"
  /\ last.response.body.data # None
  /\ \E i \in 1..Len(taskTable) :
       /\ taskTable[i].url = URL_other
       /\ RecordsOfTask(last.response.body.data[1], taskTable[i]) = <<>>
  /\ Len(last.response.body.data[1]) < Len(taskTable)

C30_LoadingWhileInFlight == calls # <<>> => loading

\* of two overlapping refreshes one has settled and cleared loading while
\* the request of the other is still in flight
C30_Witness ==
  /\ last.op \in {"refreshSucceeded", "refreshFailed"}
  /\ calls # <<>>
  /\ calls[1].pc = "fetch"
  /\ ~loading

\* C24: within each adapter the fetch of a locator does not wait for the
\* fetch of another locator of the same call: while a fetch of the call is
\* in flight, the fetch of every locator of the call has been started.
C24_FanOut ==
  calls # <<>> =>
    /\ calls[1].jiraInFlight # {}
         => \A k \in 1..Len(calls[1].jiraUrls) :
              \E n \in 1..Len(calls[1].jiraRequested) : calls[1].jiraRequested[n] = k
    /\ calls[1].sheetInFlight # {}
         => \A k \in 1..Len(calls[1].sheetUrls) :
              \E n \in 1..Len(calls[1].sheetRequested) : calls[1].sheetRequested[n] = k

\* the first sheet row is being fetched and the fetch of the second has not
\* been started
C24_Witness ==
  /\ calls # <<>>
  /\ calls[1].pc = "sheet"
  /\ Len(calls[1].sheetUrls) = 2
  /\ calls[1].sheetInFlight = {1}
  /\ calls[1].sheetRequested = <<1>>

\* C25: in one run the issue-tracker fetch and the sheet fetch run
\* concurrently: while the issue-tracker fetch has not settled, the sheet
\* fetch of a run with sheet tasks has been started; the response is
\* produced only after both have settled.
C25_AdaptersConcurrent ==
  /\ (/\ calls # <<>>
      /\ calls[1].pc \in {"jira", "delay"}
      /\ calls[1].sheetUrls # <<>>) => calls[1].sheetRequested # <<>>
  /\ last.op = "GET /api/tasks-status" => calls = <<>>

\* every ticket of the run has settled and the issue-tracker adapter has
\* returned, and no sheet row has been requested yet
C25_Witness ==
  /\ calls # <<>>
  /\ calls[1].pc = "jiraReturned"
  /\ calls[1].jiraUrls # <<>>
  /\ calls[1].sheetUrls # <<>>
  /\ calls[1].jiraInFlight = {}
  /\ calls[1].sheetRequested = <<>>

\* C26: never more than concurrencyLimit ticket requests are in flight, no
\* position of the list is requested twice, and when the call returns every
\* position has been requested once, every request has settled and the
\* value holds the records of the tickets whose fetch succeeded, in the
\* order of the list.
C26_BatchedRequests ==
  /\ calls # <<>> =>
       /\ Cardinality(calls[1].jiraInFlight) <= concurrencyLimit
       /\ \A m, n \in 1..Len(calls[1].jiraRequested) :
            calls[1].jiraRequested[m] = calls[1].jiraRequested[n] => m = n
       /\ calls[1].pc = "jiraReturned" => calls[1].jiraInFlight = {}
  /\ last.op = "getListGeneralInfoOfJiraTicket" =>
       LET ok == SelectSeq(Indices(last.listUrl),
                           LAMBDA k : last.answers[k].kind = "ok")
       IN /\ last.requested = Indices(last.listUrl)
          /\ \A k \in 1..Len(last.listUrl) : last.answers[k] # PendingAnswer
          /\ last.value = [n \in 1..Len(ok) |->
                             [url |-> last.listUrl[ok[n]],
                              ticketStatus |-> last.answers[ok[n]].status[1]]]

\* six tickets in two batches: the fourth was aborted, the sixth (alone in
\* its batch) succeeded, and five records are returned
C26_Witness ==
  /\ last.op = "getListGeneralInfoOfJiraTicket"
  /\ Len(last.listUrl) = 6
  /\ last.answers[4].kind = "aborted"
  /\ \A k \in {1, 2, 3, 5, 6} : last.answers[k].kind = "ok"
  /\ Len(last.value) = 5
  /\ last.value[4].url = JiraUrlOf(5)
  /\ last.value[5].url = JiraUrlOf(6)

====
